---- MODULE Spec2Model ----
(***************************************************************************)
(* easy-file-maintenance: the scanner, the analyzers, the plan built by    *)
(* app.mjs and the executor, as state machines over a small file tree.     *)
(*                                                                         *)
(* A path is the sequence of its segments as path.split('/') yields them,  *)
(* so an absolute path starts with the empty segment: "/r/a" is            *)
(* <<"", "r", "a">>.                                                       *)
(***************************************************************************)
EXTENDS Integers, Sequences, FiniteSets, TLC

VARIABLES
  tree,             \* the file system: directories, files, their stat data
  actions,          \* config.actions of the root
  pc,               \* position of the run
  scan,             \* the scan model (results of scanDirectory)
  operations,       \* app.mjs: operations, kind -> sequence of items
  destructivePaths, \* app.mjs: destructivePaths
  out,              \* result of the analyzer call under study
  ex,               \* executeOperations: its locals (kind, item, answers)
  done,             \* the items doOperation was called for, with the answers
  log,              \* the lines of the logger that mark the steps of the run
  tree0             \* the file system as it was before the run

vars == <<tree, actions, pc, scan, operations, destructivePaths, out, ex, done,
          log, tree0>>

(***************************************************************************)
(* Bounds of the model.                                                    *)
(***************************************************************************)
MaxFiles == 2       \* files of a tree of the pipeline family
MaxItems == 2       \* items per kind handed to the executor on its own
MaxDepth == 3       \* segments of a path handed to rebasePath below its prefix

(***************************************************************************)
(* JavaScript values.                                                      *)
(***************************************************************************)
\* `undefined` where a number is expected (entry.size, a missing field)
Undef == 0 - 1
\* `undefined` where a path is expected
UndefPath == <<"undefined">>
\* the empty sequence
Nil == <<>>

Max(a, b) == IF a >= b THEN a ELSE b
Min(a, b) == IF a <= b THEN a ELSE b
Last(s) == s[Len(s)]
Range(s) == {s[i] : i \in DOMAIN s}

RECURSIVE SumSeq(_)
SumSeq(s) == IF s = <<>> THEN 0 ELSE Head(s) + SumSeq(Tail(s))

RECURSIVE Flatten(_)
Flatten(ss) == IF ss = <<>> THEN <<>> ELSE Head(ss) \o Flatten(Tail(ss))

(***************************************************************************)
(* Paths (node's path module on normalized absolute POSIX paths).          *)
(***************************************************************************)
\* path.dirname
Dirname(p) == SubSeq(p, 1, Len(p) - 1)
\* path.basename
Basename(p) == p[Len(p)]
\* path.join(dir, name) / path.resolve(dir, name) for a single segment
Join(dir, name) == Append(dir, name)
\* p is q or lies beneath q
IsPrefix(q, p) == Len(q) <= Len(p) /\ SubSeq(p, 1, Len(q)) = q
\* String.includes on two paths, segment by segment (no name of the model
\* is a proper prefix of another name)
PathIncludes(p, b) ==
  \E i \in 0..(Len(p) - Len(b)) : SubSeq(p, i + 1, i + Len(b)) = b

\* config.scanPath, config.recycleBinPath, config.relativePath
ScanPath == <<"", "r">>
RecycleBinPath == <<"", "r", "#recycle">>
RelativePath == ScanPath

(***************************************************************************)
(* rebasePath (helpers.mjs): baseSegments.findIndex(seg !== target[i]),    *)
(* targetSegments.slice(index), path.join(basePath, uniquePart).           *)
(***************************************************************************)
\* Array.prototype.findIndex, 0-based, -1 when no segment differs
FindIndexDiff(baseSegments, targetSegments) ==
  LET diff == {i \in 1..Len(baseSegments) :
                 i > Len(targetSegments) \/ baseSegments[i] # targetSegments[i]}
  IN IF diff = {} THEN -1
     ELSE (CHOOSE i \in diff : \A j \in diff : i <= j) - 1

\* Array.prototype.slice(start): a negative start counts from the end
Slice(s, start) ==
  LET from == IF start < 0 THEN Max(Len(s) + start, 0) ELSE Min(start, Len(s))
  IN SubSeq(s, from + 1, Len(s))

\* a rebase that keeps the file name only
RebasePathSliceLast(basePath, targetPath) ==
  basePath \o <<Last(targetPath)>>

RebasePath(basePath, targetPath) ==
  LET uniquePart == Slice(targetPath, FindIndexDiff(basePath, targetPath))
  IN basePath \o uniquePart

(***************************************************************************)
(* Entry names of the model and what the string functions of the code      *)
(* yield for them (TLC strings are atomic, so each is tabulated).          *)
(***************************************************************************)
FileNames == {"A.jpg", "IMG.jpg", "IMG.xmp", "keep.txt", "picasa.ini", "Thumbs.db"}
DirNames == {"a", "b", "c", "d", "#recycle"}
\* a file name that holds a date, and the names the reorganizer gives to
\* the files it moves
DatedNames == {"19700205.jpg", "19700205__a.jpg"}
ReorganizedNames == {"A__a.jpg", "A__b.jpg", "A__1970_01.jpg", "19700205__a.jpg"}
\* a file name that ignoreFiles matches and removeFiles does not, and the
\* name the reorganizer gives to it
IniNames == {"desktop.ini", "desktop__a.ini"}

\* the order in which fs.readdir lists the entries of a directory
NameRank(name) ==
  CASE name = "#recycle" -> 0
    [] name = "01" -> 1
    [] name = "02" -> 2
    [] name = "1970" -> 3
    [] name = "19700205.jpg" -> 4
    [] name = "19700205__a.jpg" -> 5
    [] name = "A.jpg" -> 6
    [] name = "A__1970_01.jpg" -> 7
    [] name = "A__a.jpg" -> 8
    [] name = "A__b.jpg" -> 9
    [] name = "IMG.jpg" -> 10
    [] name = "IMG.xmp" -> 11
    [] name = "Thumbs.db" -> 12
    [] name = "a" -> 13
    [] name = "b" -> 14
    [] name = "c" -> 15
    [] name = "d" -> 16
    [] name = "desktop.ini" -> 17
    [] name = "desktop__a.ini" -> 18
    [] name = "keep.txt" -> 19
    [] name = "picasa.ini" -> 20

\* name.length
NameLength(name) ==
  CASE name \in {"a", "b", "c", "d"} -> 1
    [] name = "A.jpg" -> 5
    [] name \in {"IMG.jpg", "IMG.xmp"} -> 7
    [] name \in {"keep.txt", "#recycle"} -> 8
    [] name = "Thumbs.db" -> 9
    [] name = "picasa.ini" -> 10
    [] name = "desktop.ini" -> 11
    [] name = "desktop__a.ini" -> 14

\* dirItem.name.split('.').pop()
Extension(name) ==
  CASE name \in {"A.jpg", "IMG.jpg"} \cup DatedNames \cup ReorganizedNames -> "jpg"
    [] name = "IMG.xmp" -> "xmp"
    [] name = "keep.txt" -> "txt"
    [] name \in {"picasa.ini"} \cup IniNames -> "ini"
    [] name = "Thumbs.db" -> "db"
    [] OTHER -> name

\* getFilesetForFile.extractBaseName: the file name without its last
\* extension, then without the markers /(\.\d+|\.\w{2,3}|\[[^\]]+\]|-thumb)/g
ExtractBaseName(name) ==
  CASE name = "A.jpg" -> "A"
    [] name \in {"IMG.jpg", "IMG.xmp"} -> "IMG"
    [] name = "keep.txt" -> "keep"
    [] name = "picasa.ini" -> "picasa"
    [] name = "desktop.ini" -> "desktop"
    [] name = "desktop__a.ini" -> "desktop__a"
    [] name = "Thumbs.db" -> "Thumbs"
    [] OTHER -> name

\* config defaults (config/defaults.mjs)
IgnoreDirectories == <<"@eaDir", "@*">>
IgnoreFiles == <<"*.ini">>
RemoveFiles == <<"*picasa.ini", "Thumbs.db">>

\* matchPattern(str, pattern): '^' + escaped pattern with * as .* + '$',
\* both lower-cased
MatchPattern(str, pattern) ==
  \/ pattern = "*.ini" /\ str \in {"picasa.ini"} \cup IniNames
  \/ pattern = "*picasa.ini" /\ str = "picasa.ini"
  \/ pattern = "Thumbs.db" /\ str = "Thumbs.db"

\* Array.prototype.some over the patterns of a config list
SomePattern(patterns, str) ==
  \E i \in DOMAIN patterns : MatchPattern(str, patterns[i])

(***************************************************************************)
(* The file system. tree.dirs: the directories below the scan root;        *)
(* tree.files: path -> stat data and content of a file; tree.dirStat: the  *)
(* st_size the file system reports for a directory; tree.badDirs: the      *)
(* directories whose mode is not the configured one.                       *)
(***************************************************************************)
FilePaths(t) == DOMAIN t.files

IsDir(t, p) == p \in t.dirs \/ p = ScanPath

\* sort a set of names by NameRank
RECURSIVE SortNames(_)
SortNames(S) ==
  IF S = {} THEN <<>>
  ELSE LET n == CHOOSE x \in S : \A y \in S : NameRank(x) <= NameRank(y)
       IN <<n>> \o SortNames(S \ {n})

\* fs.readdir(currentDir)
Readdir(t, currentDir) ==
  SortNames({Basename(p) : p \in {q \in t.dirs \cup FilePaths(t) :
                                    Dirname(q) = currentDir}})

\* fs.stat(fullPath), the fields the code reads
Stat(t, p) ==
  IF p \in FilePaths(t)
  THEN [size |-> t.files[p].size, mode |-> t.files[p].mode,
        uid |-> t.files[p].uid, gid |-> t.files[p].gid,
        ctimeMs |-> t.files[p].ctimeMs, birthtimeMs |-> t.files[p].birthtimeMs,
        mtime |-> t.files[p].mtime, nlink |-> 1, isFile |-> TRUE]
  ELSE [size |-> t.dirStat, mode |-> IF p \in t.badDirs THEN 16877 ELSE 16893,
        uid |-> 1000, gid |-> 100, ctimeMs |-> 1, birthtimeMs |-> 1,
        mtime |-> 1, nlink |-> 2, isFile |-> FALSE]

(***************************************************************************)
(* The scanner: getFiles and updateDirectoryStats.  results.directories    *)
(* and results.files are Maps; a Map is the sequence of its values in      *)
(* insertion order, each value holding its key as `path`.                  *)
(***************************************************************************)
\* Map.prototype.has / get / set
MapHas(m, key) == \E i \in DOMAIN m : m[i].path = key
MapIndex(m, key) == CHOOSE i \in DOMAIN m : m[i].path = key
MapGet(m, key) == m[MapIndex(m, key)]
MapSet(m, key, value) ==
  IF MapHas(m, key) THEN [m EXCEPT ![MapIndex(m, key)] = value]
  ELSE Append(m, value)

\* createItem plus the fields getFiles adds to a directory
DirItem(t, name, fullPath, depth) ==
  [path |-> fullPath, dir |-> Dirname(fullPath), name |-> name, depth |-> depth,
   isFile |-> FALSE, isDirectory |-> TRUE, stats |-> Stat(t, fullPath),
   size |-> Undef, delete |-> FALSE, ignored |-> FALSE, extension |-> "",
   fileCount |-> 0, dirCount |-> 0, intrinsicSize |-> 0, totalSize |-> 0]

\* createItem plus the fields getFiles adds to a file
FileItem(t, name, fullPath, depth, ignored) ==
  [path |-> fullPath, dir |-> Dirname(fullPath), name |-> name, depth |-> depth,
   isFile |-> TRUE, isDirectory |-> FALSE, stats |-> Stat(t, fullPath),
   size |-> Undef, delete |-> SomePattern(RemoveFiles, name), ignored |-> ignored,
   extension |-> Extension(name),
   fileCount |-> Undef, dirCount |-> Undef, intrinsicSize |-> Undef,
   totalSize |-> Undef]

\* the entry updateDirectoryStats creates for a directory not yet recorded
StubItem(subDir) ==
  [path |-> subDir, dir |-> Dirname(subDir), name |-> Basename(subDir),
   depth |-> Undef, isFile |-> FALSE, isDirectory |-> FALSE,
   stats |-> [size |-> Undef, mode |-> Undef, uid |-> Undef, gid |-> Undef,
              ctimeMs |-> Undef, birthtimeMs |-> Undef, mtime |-> Undef,
              nlink |-> Undef, isFile |-> FALSE],
   size |-> Undef, delete |-> FALSE, ignored |-> FALSE, extension |-> "",
   fileCount |-> 0, dirCount |-> 0, intrinsicSize |-> 0, totalSize |-> 0]

\* a split that yields the parent directory only
SplitPathParentOnly(dir, fullPath) ==
  IF Len(fullPath) - Len(dir) - 1 >= 1 THEN <<Dirname(fullPath)>> ELSE <<>>

\* pathSplitter(path.relative(dir, fullPath)) joined onto dir: every
\* directory between dir (excluded) and fullPath (excluded)
SplitPath(dir, fullPath) ==
  [i \in 1..(Len(fullPath) - Len(dir) - 1) |-> SubSeq(fullPath, 1, Len(dir) + i)]

\* the body of updateDirectoryStats' forEach for one subDir
UpdateOne(directories, subDir, fullPath, stats, ignored) ==
  LET ds == IF MapHas(directories, subDir) THEN directories
            ELSE MapSet(directories, subDir, StubItem(subDir))
      e == MapGet(ds, subDir)
      add == IF ignored THEN 0 ELSE stats.size
  IN MapSet(ds, subDir,
       [e EXCEPT !.totalSize = @ + add,
                 !.fileCount = @ + 1,
                 !.intrinsicSize = IF Dirname(fullPath) = subDir THEN @ + add ELSE @,
                 !.dirCount = IF ~stats.isFile THEN @ + 1 ELSE @])

RECURSIVE UpdateDirectoryStatsFrom(_, _, _, _, _)
UpdateDirectoryStatsFrom(directories, subDirs, fullPath, stats, ignored) ==
  IF subDirs = <<>> THEN directories
  ELSE UpdateDirectoryStatsFrom(
         UpdateOne(directories, Head(subDirs), fullPath, stats, ignored),
         Tail(subDirs), fullPath, stats, ignored)

UpdateDirectoryStats(directories, dir, fullPath, stats, ignored) ==
  UpdateDirectoryStatsFrom(directories, SplitPath(dir, fullPath), fullPath,
                           stats, ignored)

\* getFiles: the for loop over the items of one directory.
\* r = [directories, files, queue]
RECURSIVE ScanItems(_, _, _, _, _, _)
ScanItems(t, dir, names, currentDir, depth, r) ==
  IF names = <<>> THEN r
  ELSE
    LET name == Head(names)
        fullPath == Join(currentDir, name)
        stats == Stat(t, fullPath)
        rest == Tail(names)
    IN IF ~stats.isFile
       THEN
         IF SomePattern(IgnoreDirectories, name)
              \/ PathIncludes(fullPath, RecycleBinPath)
         THEN ScanItems(t, dir, rest, currentDir, depth, r)
         ELSE
           LET ds == MapSet(r.directories, fullPath,
                            DirItem(t, name, fullPath, depth))
           IN ScanItems(t, dir, rest, currentDir, depth,
                [directories |-> UpdateDirectoryStats(ds, dir, fullPath, stats, FALSE),
                 files |-> r.files,
                 queue |-> Append(r.queue, [dir |-> fullPath, depth |-> depth + 1])])
       ELSE
         LET ignored == SomePattern(IgnoreFiles, name)
         IN ScanItems(t, dir, rest, currentDir, depth,
              [directories |-> UpdateDirectoryStats(r.directories, dir, fullPath,
                                                    stats, ignored),
               files |-> MapSet(r.files, fullPath,
                                FileItem(t, name, fullPath, depth, ignored)),
               queue |-> r.queue])

\* getFiles: the while loop over the queue
RECURSIVE ScanQueue(_, _, _)
ScanQueue(t, dir, r) ==
  IF r.queue = <<>> THEN r
  ELSE LET cur == Head(r.queue)
       IN ScanQueue(t, dir,
            ScanItems(t, dir, Readdir(t, cur.dir), cur.dir, cur.depth,
                      [r EXCEPT !.queue = Tail(r.queue)]))

GetFiles(t, dir) ==
  LET r == ScanQueue(t, dir, [directories |-> <<>>, files |-> <<>>,
                              queue |-> <<[dir |-> dir, depth |-> 0]>>])
  IN [directories |-> r.directories, files |-> r.files]

\* scanDirectory
ScanDirectory(t) == GetFiles(t, ScanPath)

(***************************************************************************)
(* getCleanUpItems (modules/getCleanUpItems.mjs).                          *)
(***************************************************************************)
\* {...item, extra}: the fields of extra override those of item
Spread(item, extra) == extra @@ item

\* the reason text of a candidate
CleanUpReason(item, emptyThreshold, empty, reallyEmpty) ==
  IF item.isDirectory
  THEN IF item.totalSize = 0 /\ reallyEmpty THEN "is empty"
       ELSE IF item.totalSize > 0 /\ item.totalSize <= emptyThreshold
       THEN "below threshold"
       ELSE IF empty /\ ~reallyEmpty THEN "is considered empty"
       ELSE "n/a"
  ELSE IF item.delete THEN "is marked for deletion" ELSE "n/a"

\* processItems: the tasks run one after another in the order of the Map;
\* acc = [removalPaths, result]
RECURSIVE CleanUpProcessItems(_, _, _, _, _)
CleanUpProcessItems(items, scanDir, binPath, emptyThreshold, acc) ==
  IF items = <<>> THEN acc
  ELSE
    LET item == Head(items)
        empty == item.isDirectory /\ item.totalSize <= emptyThreshold
        reallyEmpty == item.isDirectory /\ item.fileCount = 0 /\ empty
        reason == CleanUpReason(item, emptyThreshold, empty, reallyEmpty)
        next ==
          IF item.dir \in acc.removalPaths
               \/ (item.isDirectory /\ item.path = scanDir)
          THEN [acc EXCEPT !.removalPaths = @ \cup {item.path}]
          ELSE IF empty \/ item.delete
          THEN [removalPaths |-> acc.removalPaths \cup {item.path},
                result |-> Append(acc.result,
                   Spread(item, [move_to |-> RebasePath(binPath, item.path),
                                 reason |-> reason]))]
          ELSE acc
    IN CleanUpProcessItems(Tail(items), scanDir, binPath, emptyThreshold, next)

\* the files are processed first, then the directories, sharing removalPaths
GetCleanUpItems(items, scanDir, binPath, emptyThreshold) ==
  LET f == CleanUpProcessItems(items.files, scanDir, binPath, emptyThreshold,
                               [removalPaths |-> {}, result |-> <<>>])
      d == CleanUpProcessItems(items.directories, scanDir, binPath,
                               emptyThreshold,
                               [removalPaths |-> f.removalPaths, result |-> <<>>])
  IN [directories |-> d.result, files |-> f.result,
      size |-> SumSeq([i \in DOMAIN f.result |-> f.result[i].stats.size])]

(***************************************************************************)
(* getOrphanItems (modules/orphanDetector.mjs).                            *)
(***************************************************************************)
\* items.directories.get(item.dir)?.fileCount === 1
OrphanTest(items, item) ==
  MapHas(items.directories, item.dir)
    /\ MapGet(items.directories, item.dir).fileCount = 1

RECURSIVE OrphanProcessItems(_, _, _)
OrphanProcessItems(items, input, binPath) ==
  IF input = <<>> THEN <<>>
  ELSE LET item == Head(input)
           rest == OrphanProcessItems(items, Tail(input), binPath)
       IN IF OrphanTest(items, item)
          THEN <<Spread(item, [move_to |-> RebasePath(binPath, item.path)])>>
                 \o rest
          ELSE rest

GetOrphanItems(items, scanDir, binPath) ==
  [files |-> OrphanProcessItems(items, items.files, binPath), size |-> 0]

(***************************************************************************)
(* The duplicate checker: determineOriginal, getFilesetForFile,            *)
(* groupItems, getDuplicateItems.  A hash is a sequence of content         *)
(* identities: <<h>> for the md5 of a file's first chunk, the              *)
(* concatenation of the members' hashes for the md5 over a fileset.        *)
(***************************************************************************)
Paths(items) == {items[i].path : i \in DOMAIN items}

\* hashFileChunk: md5 of the zero-padded first 131072 bytes
HashFileChunk(t, filePath) == <<t.files[filePath].hash>>

\* fs.open(filePath, 'r') of hashFileChunk succeeds: the owner, who runs the
\* program, has the read bit 0o400
Readable(t, filePath) == (t.files[filePath].mode \div 256) % 2 = 1

\* the reduce callback of determineOriginal
OlderOf(oldest, file) ==
  LET fileTimestamp == Min(file.stats.ctimeMs, file.stats.birthtimeMs)
      oldestTimestamp == Min(oldest.stats.ctimeMs, oldest.stats.birthtimeMs)
  IN IF fileTimestamp < oldestTimestamp
          \/ (fileTimestamp = oldestTimestamp
                /\ NameLength(file.name) < NameLength(oldest.name))
     THEN file ELSE oldest

RECURSIVE Reduce(_, _, _)
Reduce(Op(_, _), acc, s) ==
  IF s = <<>> THEN acc ELSE Reduce(Op, Op(acc, Head(s)), Tail(s))

\* an original chosen by position alone
DetermineOriginalFirst(files) == files[1]

DetermineOriginal(files) == Reduce(OlderOf, files[1], files)

\* getFilesetForFile: the files of directoryFiles whose normalized base
\* name is that of filePath, when there is more than one
GetFilesetForFile(filePath, directoryFiles) ==
  LET targetBaseName == ExtractBaseName(Basename(filePath))
      fileset == SelectSeq(directoryFiles,
                   LAMBDA file : ExtractBaseName(Basename(file.path)) = targetBaseName)
  IN IF Len(fileset) > 1 THEN fileset ELSE <<>>

\* groupItems, directory stage: a directory is pushed to its group only if
\* dir.size > 0, a field no scanner entry has
DirectoryCandidates(items) ==
  SelectSeq(items.directories, LAMBDA dir : dir.size > 0)

\* the key of a directory's group
DirKey(dir) ==
  <<dir.intrinsicSize, dir.totalSize, dir.fileCount, dir.stats.nlink, dir.stats.size>>

\* the keys of groupedItems.directories in the order they were first seen
RECURSIVE SeenKeys(_, _)
SeenKeys(acc, s) ==
  IF s = <<>> THEN acc
  ELSE SeenKeys(IF \E i \in DOMAIN acc : acc[i] = DirKey(Head(s)) THEN acc
                ELSE Append(acc, DirKey(Head(s))), Tail(s))

GroupsOfKeys(candidates, keys) ==
  SelectSeq([i \in DOMAIN keys |->
               SelectSeq(candidates, LAMBDA dir : DirKey(dir) = keys[i])],
            LAMBDA g : Len(g) > 1)

\* filterOutSingleGroups(groupedItems.directories)
DirectoryGroups(candidates) == GroupsOfKeys(candidates, SeenKeys(<<>>, candidates))

\* calculateDirectoryHash: the md5 over the hashes of the files directly
\* in the directory, then over the hashes of its subdirectories
RECURSIVE CalculateDirectoryHash(_, _, _)
CalculateDirectoryHash(t, dirPath, results) ==
  Flatten([i \in DOMAIN results.files |->
             IF results.files[i].dir = dirPath
             THEN HashFileChunk(t, results.files[i].path) ELSE <<>>])
    \o Flatten([i \in DOMAIN results.directories |->
                  IF results.directories[i].dir = dirPath
                  THEN <<0>> \o CalculateDirectoryHash(t, results.directories[i].path,
                                                       results) \o <<0>>
                  ELSE <<>>])

\* processGroupedItems for one group: the members whose hash occurs more
\* than once in the group, the original excepted
DuplicatesAmong(group, hashes, originalItem) ==
  {group[i].path : i \in {i \in DOMAIN group :
      /\ \E j \in DOMAIN group : j # i /\ hashes[j] = hashes[i]
      /\ group[i].path # originalItem.path}}

DuplicatesOfGroup(t, items, group) ==
  DuplicatesAmong(group,
    [i \in DOMAIN group |-> CalculateDirectoryHash(t, group[i].path, items)],
    DetermineOriginal(group))

\* the paths of the directories found duplicate
DuplicateDirPathsOf(t, items, groups) ==
  UNION {DuplicatesOfGroup(t, items, groups[i]) : i \in DOMAIN groups}

\* the files that take part: those not inside a duplicate directory
GroupedFiles(items, duplicateDirPaths) ==
  SelectSeq(items.files, LAMBDA file : file.dir \notin duplicateDirPaths)

\* groupedItems.files[key] and groupedItems.dirFiles[dir]
FilesOfSize(files, size) == SelectSeq(files, LAMBDA file : file.stats.size = size)

DirFiles(files, dir) == SelectSeq(files, LAMBDA file : file.dir = dir)

\* Object.entries(groupedItems.files): integer keys ascend
RECURSIVE SortAscending(_)
SortAscending(S) ==
  IF S = {} THEN <<>>
  ELSE <<CHOOSE x \in S : \A y \in S : x <= y>>
         \o SortAscending(S \ {CHOOSE x \in S : \A y \in S : x <= y})

GroupsOfSizes(files, keys) ==
  SelectSeq([i \in DOMAIN keys |-> FilesOfSize(files, keys[i])],
            LAMBDA dupeSet : Len(dupeSet) > 1)

FilteredGroupedFiles(files) ==
  GroupsOfSizes(files, SortAscending({files[i].stats.size : i \in DOMAIN files}))

\* the hashSet built for one member of a size group
HashEntry(isSet, original, hashed) ==
  [set |-> isSet, original |-> original, items |-> hashed,
   hash |-> IF isSet THEN Flatten([i \in DOMAIN hashed |-> hashed[i].hash])
            ELSE hashed[1].hash]

HashItems(t, members) ==
  [i \in DOMAIN members |->
     Spread(members[i], [hash |-> HashFileChunk(t, members[i].path)])]

HashSetOf(t, dupe, setOriginal, fileSet) ==
  HashEntry(Len(fileSet) > 1, dupe.path = setOriginal.path,
            HashItems(t, IF Len(fileSet) > 1 THEN fileSet ELSE <<dupe>>))

HashSet(t, files, dupe, setOriginal) ==
  HashSetOf(t, dupe, setOriginal,
            GetFilesetForFile(dupe.path, DirFiles(files, dupe.dir)))

\* the files one member of a size group has hashFileChunk called for
HashedPaths(files, dupe) ==
  IF Len(GetFilesetForFile(dupe.path, DirFiles(files, dupe.dir))) > 1
  THEN Paths(GetFilesetForFile(dupe.path, DirFiles(files, dupe.dir)))
  ELSE {dupe.path}

\* a hashFileChunk of the file stage rejects, and with it the Promise.all
\* and groupItems: nothing catches it
HashingFails(t, files) ==
  \E i \in DOMAIN FilteredGroupedFiles(files) :
    \E j \in DOMAIN FilteredGroupedFiles(files)[i] :
      \E p \in HashedPaths(files, FilteredGroupedFiles(files)[i][j]) :
        ~Readable(t, p)

\* Array.prototype.some over the items of an entry
SomeItemHash(entry, hash) == \E i \in DOMAIN entry.items : entry.items[i].hash = hash

\* Array.prototype.findIndex, 1-based, 0 when there is none
FirstIndex(s, Test(_)) ==
  IF \E i \in DOMAIN s : Test(s[i])
  THEN CHOOSE i \in DOMAIN s : Test(s[i]) /\ \A j \in 1..(i - 1) : ~Test(s[j])
  ELSE 0

\* the reference entry: the original's entry, or, when that is no set, the
\* first set holding an item with the original's hash
PromoteTo(processedDupeSet, orig, promoted) ==
  IF ~processedDupeSet[orig].set /\ promoted # 0 THEN promoted ELSE orig

Promote(processedDupeSet, orig) ==
  PromoteTo(processedDupeSet, orig,
    FirstIndex(processedDupeSet,
      LAMBDA e : e.set /\ SomeItemHash(e, processedDupeSet[orig].hash)))

ReferenceIndex(processedDupeSet) ==
  Promote(processedDupeSet, FirstIndex(processedDupeSet, LAMBDA e : e.original))

\* the filter rules of the verification loop
KeepEntry(entry, isReference, referenceEntry) ==
  IF isReference THEN FALSE
  ELSE IF ~entry.set /\ ~entry.original
  THEN SomeItemHash(referenceEntry, entry.hash)
  ELSE IF entry.set /\ ~entry.original
  THEN entry.hash = referenceEntry.hash
  ELSE IF ~referenceEntry.set
  THEN entry.hash = referenceEntry.hash
  ELSE FALSE

\* new Map(referenceEntry.items.map(item => [item.hash, item.path])).get:
\* the last item with the hash wins
LastWithHash(its, hash) ==
  CHOOSE i \in DOMAIN its :
    its[i].hash = hash /\ \A j \in DOMAIN its : its[j].hash = hash => j <= i

ReferenceItemsMapGet(referenceEntry, hash) ==
  IF SomeItemHash(referenceEntry, hash)
  THEN referenceEntry.items[LastWithHash(referenceEntry.items, hash)].path
  ELSE UndefPath

\* the items of a kept entry with duplicate_of and part_of_set
MarkItems(entry, referenceEntry) ==
  [i \in DOMAIN entry.items |->
     Spread(entry.items[i],
       [duplicate_of |-> ReferenceItemsMapGet(referenceEntry, entry.items[i].hash),
        part_of_set |-> entry.set])]

\* one pass of the verification loop: the items of the entries kept
MarkKept(processedDupeSet, ref) ==
  Flatten([i \in DOMAIN processedDupeSet |->
             IF KeepEntry(processedDupeSet[i], i = ref, processedDupeSet[ref])
             THEN MarkItems(processedDupeSet[i], processedDupeSet[ref])
             ELSE <<>>])

VerifyProcessed(processedDupeSet) ==
  MarkKept(processedDupeSet, ReferenceIndex(processedDupeSet))

ProcessDupeSet(t, files, dupeSet, setOriginal) ==
  [i \in DOMAIN dupeSet |-> HashSet(t, files, dupeSet[i], setOriginal)]

VerifyGroup(t, files, dupeSet) ==
  VerifyProcessed(ProcessDupeSet(t, files, dupeSet, DetermineOriginal(dupeSet)))

\* Object.fromEntries(pairs) followed by Object.values
RECURSIVE FromEntries(_, _)
FromEntries(acc, s) ==
  IF s = <<>> THEN acc
  ELSE FromEntries(MapSet(acc, Head(s).path, Head(s)), Tail(s))

VerifyGroups(t, files, groups) ==
  FromEntries(<<>>, Flatten([i \in DOMAIN groups |-> VerifyGroup(t, files, groups[i])]))

VerifyFiles(t, files) == VerifyGroups(t, files, FilteredGroupedFiles(files))

GroupItemsOf(t, items, groups) ==
  [directories |-> groups,
   threw |-> HashingFails(t, GroupedFiles(items, DuplicateDirPathsOf(t, items, groups))),
   files |-> VerifyFiles(t, GroupedFiles(items, DuplicateDirPathsOf(t, items, groups)))]

GroupItems(t, items) ==
  GroupItemsOf(t, items, DirectoryGroups(DirectoryCandidates(items)))

\* getDuplicateItems; returnDirs maps each group (an array, which has no
\* path) through rebasePath, which throws on an undefined path
ReturnFiles(files, binPath) ==
  [i \in DOMAIN files |->
     Spread(files[i], [move_to |-> RebasePath(binPath, files[i].path)])]

DuplicateResult(threw, returnFiles) ==
  [threw |-> threw, directories |-> <<>>, files |-> returnFiles,
   size |-> SumSeq([i \in DOMAIN returnFiles |-> returnFiles[i].stats.size])]

\* a throw of groupItems is a throw of getDuplicateItems
DuplicatesOf(duplicates, binPath) ==
  IF duplicates.threw
  THEN DuplicateResult(TRUE, <<>>)
  ELSE DuplicateResult(duplicates.directories # <<>>,
                       ReturnFiles(duplicates.files, binPath))

GetDuplicateItems(t, items, binPath) == DuplicatesOf(GroupItems(t, items), binPath)

(***************************************************************************)
(* app.mjs, the duplicates block: Object.values(duplicates).flat() holds   *)
(* the directories, the files and the number `size`, which has no field.   *)
(***************************************************************************)
NumberItem ==
  [path |-> UndefPath, size |-> Undef, duplicate_of |-> UndefPath,
   move_to |-> UndefPath]

FlatValues(duplicates) ==
  duplicates.directories \o duplicates.files \o <<NumberItem>>

DuplicateOperation(dupe) ==
  [path |-> dupe.path, size |-> dupe.size, original |-> dupe.duplicate_of,
   sidecarFiles |-> <<>>, move_to |-> dupe.move_to]

DuplicateOperations(duplicates) ==
  [i \in DOMAIN FlatValues(duplicates) |->
     DuplicateOperation(FlatValues(duplicates)[i])]

(***************************************************************************)
(* getReorganizeItems (modules/reorganizer.mjs).                           *)
(***************************************************************************)
\* path.extname and path.basename(fileName, ext) of the model's names
Extname(name) ==
  CASE name \in {"A.jpg", "IMG.jpg"} \cup DatedNames \cup ReorganizedNames -> ".jpg"
    [] name = "IMG.xmp" -> ".xmp"
    [] name = "keep.txt" -> ".txt"
    [] name \in {"picasa.ini"} \cup IniNames -> ".ini"
    [] name = "Thumbs.db" -> ".db"
    [] OTHER -> ""
Stem(name) ==
  CASE name = "A.jpg" -> "A"
    [] name = "19700205.jpg" -> "19700205"
    [] name = "19700205__a.jpg" -> "19700205__a"
    [] name = "A__a.jpg" -> "A__a"
    [] name = "A__b.jpg" -> "A__b"
    [] name = "A__1970_01.jpg" -> "A__1970_01"
    [] name \in {"IMG.jpg", "IMG.xmp"} -> "IMG"
    [] name = "keep.txt" -> "keep"
    [] name = "picasa.ini" -> "picasa"
    [] name = "desktop.ini" -> "desktop"
    [] name = "desktop__a.ini" -> "desktop__a"
    [] name = "Thumbs.db" -> "Thumbs"
    [] OTHER -> name

\* appendToFilename
AppendToFilename(fileName, appendString) ==
  Stem(fileName) \o appendString \o Extname(fileName)

\* the dates the patterns of extractOldestDate find in one segment of a
\* path: 1970-02-05 in the dated names.  A date is a Date in seconds since
\* the epoch.
NameDates(name) == IF name \in DatedNames THEN {3024000} ELSE {}

\* the matches over file.path (evalFullPath is true); no match spans a '/'
PathDates(p) == UNION {NameDates(p[i]) : i \in DOMAIN p}

\* the oldest of the dates after the threshold (config.dateThreshold ""
\* compares as 0); 0 stands for no date
OldestValid(dates) ==
  IF {d \in dates : d > 0} = {} THEN 0
  ELSE CHOOSE d \in dates : d > 0 /\ \A e \in dates : e > 0 => d <= e

\* candidates that include the mtime whatever the other sources gave
CandidateDatesWithMtime(exifDates, pathDates, mtime) ==
  exifDates \cup pathDates \cup {mtime}

\* the array `dates` before step 4: the EXIF date and the dates of the
\* path, and the mtime only when these are none
CandidateDates(exifDates, pathDates, mtime) ==
  IF exifDates \cup pathDates # {} THEN exifDates \cup pathDates ELSE {mtime}

\* extractOldestDate: no file of the model holds EXIF data
ExtractOldestDate(file) ==
  OldestValid(CandidateDates({}, PathDates(file.path), file.stats.mtime))

\* the template /{year}/{month}/ filled in with getUTCFullYear and
\* getUTCMonth + 1; the dates of the model lie in January and February 1970
TemplateDir(date) ==
  IF date < 2678400 THEN <<"1970", "01">> ELSE <<"1970", "02">>

\* normalizePath(file.dir).replace(relPath, '').replace(/[\\/]/g, '_')
RECURSIVE Underscored(_)
Underscored(segs) ==
  IF segs = <<>> THEN "" ELSE "_" \o Head(segs) \o Underscored(Tail(segs))
PathRef(dir, relPath) == Underscored(SubSeq(dir, Len(relPath) + 1, Len(dir)))

\* file.name.includes(pathRef): no file of the model lies in a directory
\* whose pathRef its name holds
TargetName(name, pathRef) ==
  IF pathRef = "" THEN name ELSE AppendToFilename(name, "_" \o pathRef)

ReorganizeItem(file, relPath, date) ==
  IF date = 0 \/ file.isDirectory \/ file.delete THEN <<>>
  ELSE IF relPath \o TemplateDir(date) # file.dir
  THEN <<[path |-> file.path,
          move_to |-> Join(relPath \o TemplateDir(date),
                           TargetName(file.name, PathRef(file.dir, relPath))),
          date |-> date]>>
  ELSE <<>>

GetReorganizeItems(items, relPath) ==
  [directories |-> items.directories,
   files |-> Flatten([i \in DOMAIN items.files |->
                ReorganizeItem(items.files[i], relPath,
                               ExtractOldestDate(items.files[i]))])]

(***************************************************************************)
(* getPermissionFiles.  An octal string ('0664') is represented by the     *)
(* number it denotes; Number.toString(8) is one-to-one.                    *)
(***************************************************************************)
\* the characters of a configured permission string
PermissionChars(perm) ==
  CASE perm = "664" -> <<"6", "6", "4">>
    [] perm = "775" -> <<"7", "7", "5">>
    [] perm = "644" -> <<"6", "4", "4">>
    [] perm = "0o664" -> <<"0", "o", "6", "6", "4">>
    [] perm = "0o775" -> <<"0", "o", "7", "7", "5">>

\* the value of a character as an octal digit, Undef when it is none
OctalDigit(c) ==
  CASE c = "0" -> 0 [] c = "4" -> 4 [] c = "5" -> 5 [] c = "6" -> 6 [] c = "7" -> 7
    [] OTHER -> Undef

\* parseInt(string, 8): the digits up to the first character that is no
\* octal digit; radix 8 strips no "0o" prefix, so the scan ends at the "o"
RECURSIVE ParseOctalPrefix(_, _)
ParseOctalPrefix(acc, chars) ==
  IF chars = <<>> \/ OctalDigit(Head(chars)) = Undef THEN acc
  ELSE ParseOctalPrefix(acc * 8 + OctalDigit(Head(chars)), Tail(chars))

\* parseInt(perm, 8) of a configured permission string
ParseInt8(perm) == ParseOctalPrefix(0, PermissionChars(perm))

\* normalizePermissionAsString
NormalizePermissionAsString(perm) == ParseInt8(perm)

\* getNormalizedModeAsString: '0' + (mode & 0o777).toString(8)
GetNormalizedModeAsString(mode) == mode % 512

\* new Map([...items.files, ...items.directories])
AllEntries(items) == items.files \o items.directories

PermissionItem(entry, desiredMode, currentMode) ==
  IF currentMode # desiredMode
  THEN <<Spread(entry, [currentMode |-> currentMode, desiredMode |-> desiredMode,
                        fsChmodValue |-> desiredMode])>>
  ELSE <<>>

GetPermissionFiles(items, filePerm, dirPerm) ==
  Flatten([i \in DOMAIN AllEntries(items) |->
     PermissionItem(AllEntries(items)[i],
       IF AllEntries(items)[i].isFile THEN NormalizePermissionAsString(filePerm)
       ELSE NormalizePermissionAsString(dirPerm),
       GetNormalizedModeAsString(AllEntries(items)[i].stats.mode))])

(***************************************************************************)
(* getOwnershipFiles (modules/ownershipChecker.mjs).                       *)
(***************************************************************************)
\* the uid and gid /etc/passwd and /etc/group give for the configured
\* owner_user and owner_group
SystemUser == 1000
SystemGroup == 100

\* systemUser and systemGroup are both found
OwnerFound(t) == t.ownerFound

OwnershipItem(entry, user, group) ==
  IF entry.stats.uid # SystemUser \/ entry.stats.gid # SystemGroup
  THEN <<Spread(entry, [currentUid |-> entry.stats.uid, currentGid |-> entry.stats.gid,
                        expectedUser |-> user, expectedGroup |-> group,
                        expectedUid |-> SystemUser, expectedGid |-> SystemGroup])>>
  ELSE <<>>

GetOwnershipFiles(items, user, group) ==
  Flatten([i \in DOMAIN AllEntries(items) |->
             OwnershipItem(AllEntries(items)[i], user, group)])

(***************************************************************************)
(* doOperation (utils/executor.mjs) on the file system.                    *)
(***************************************************************************)
\* the proper prefixes of a path below the root directory "/"
Ancestors(p) == {SubSeq(p, 1, n) : n \in 2..(Len(p) - 1)}

\* a path that exists
Exists(t, p) == p \in FilePaths(t) \/ p \in t.dirs \/ IsPrefix(p, ScanPath)

\* fs.mkdir(dir, {recursive: true}): fails when a file is in the way
MkdirFails(t, dir) == \E a \in Ancestors(dir) \cup {dir} : a \in FilePaths(t)
Mkdir(t, dir) ==
  [t EXCEPT !.dirs = @ \cup {a \in Ancestors(dir) \cup {dir} : ~IsPrefix(a, ScanPath)}]

\* fsExtra.moveSync throws: no source, source and destination the same,
\* the destination inside the source, or a directory and a file in each
\* other's way
MoveFails(t, src, dest) ==
  \/ ~(src \in FilePaths(t) \/ src \in t.dirs)
  \/ IsPrefix(src, dest)
  \/ src \in t.dirs /\ dest \in FilePaths(t)
  \/ src \in FilePaths(t) /\ dest \in t.dirs

\* the path of p after src has become dest
Moved(p, src, dest) == dest \o SubSeq(p, Len(src) + 1, Len(p))

\* fsExtra.moveSync(src, dest, {overwrite: true}): whatever is at dest is
\* removed, then src (a file, or a directory with all below it) is renamed
MoveSync(t, src, dest) ==
  [t EXCEPT
     !.dirs = {d \in @ : ~IsPrefix(dest, d) /\ ~IsPrefix(src, d)}
                \cup {Moved(d, src, dest) : d \in {e \in @ : IsPrefix(src, e)}},
     !.badDirs = {d \in @ : ~IsPrefix(dest, d) /\ ~IsPrefix(src, d)}
                \cup {Moved(d, src, dest) : d \in {e \in @ : IsPrefix(src, e)}},
     !.files = [p \in {q \in DOMAIN @ : ~IsPrefix(dest, q) /\ ~IsPrefix(src, q)}
                       \cup {Moved(q, src, dest) :
                               q \in {r \in DOMAIN @ : IsPrefix(src, r)}} |->
                  IF IsPrefix(dest, p)
                  THEN @[src \o SubSeq(p, Len(dest) + 1, Len(p))]
                  ELSE @[p]]]

MoveAfterMkdir(t, src, dest) ==
  IF MoveFails(t, src, dest) THEN t ELSE MoveSync(t, src, dest)

\* the move branch of doOperation
DoMove(t, item) ==
  IF MkdirFails(t, Dirname(item.move_to)) THEN t
  ELSE MoveAfterMkdir(Mkdir(t, Dirname(item.move_to)), item.path, item.move_to)

\* fs.chmod(path, mode): the permission bits of the mode are replaced
Chmod(t, p, mode) ==
  IF p \in FilePaths(t)
  THEN [t EXCEPT !.files[p].mode = (@ \div 512) * 512 + mode]
  ELSE IF p \in t.dirs /\ mode = 509 THEN [t EXCEPT !.badDirs = @ \ {p}]
  ELSE IF p \in t.dirs THEN [t EXCEPT !.badDirs = @ \cup {p}]
  ELSE t

\* fs.chown(path, uid, gid); the directories of the model keep their owner
Chown(t, p, uid, gid) ==
  IF p \in FilePaths(t)
  THEN [t EXCEPT !.files[p].uid = uid, !.files[p].gid = gid]
  ELSE t

\* doOperation: a move, else a chmod, else a chown; an error is caught and
\* leaves what was done before it
DoOperation(t, item) ==
  IF "move_to" \in DOMAIN item /\ item.move_to # UndefPath
  THEN DoMove(t, item)
  ELSE IF "change_mode" \in DOMAIN item
  THEN Chmod(t, item.path, item.fsChmodValue)
  ELSE IF "new_owner_id" \in DOMAIN item /\ "new_group_id" \in DOMAIN item
  THEN Chown(t, item.path, item.new_owner_id, item.new_group_id)
  ELSE t

(***************************************************************************)
(* File trees.                                                             *)
(***************************************************************************)
\* a regular file: rw-rw-r-- (0o100664), owned by the configured owner;
\* mtime stands for the Date of stats.mtime, in seconds
File(size, hash, ctimeMs, birthtimeMs) ==
  [size |-> size, hash |-> hash, ctimeMs |-> ctimeMs, birthtimeMs |-> birthtimeMs,
   mode |-> 33204, uid |-> 1000, gid |-> 100, mtime |-> ctimeMs]

\* st_size of a directory: 0 on file systems that report none, a block
\* otherwise
DirStatSizes == {0, 4096}

Root(names) == {ScanPath \o <<n>> : n \in names}
DirA == <<"", "r", "a">>
DirB == <<"", "r", "b">>
DirAB == <<"", "r", "a", "b">>
DirAC == <<"", "r", "a", "c">>
DirACD == <<"", "r", "a", "c", "d">>

\* the directory layouts of the cleanup family
DirShapes == {{}, {DirA}, {DirA, DirAB}, {DirA, DirAB, DirAC, DirACD}}

CleanNames == {"keep.txt", "picasa.ini", "Thumbs.db"}

\* every tree of a layout with at most MaxFiles files of 10 bytes
CleanTrees ==
  {[dirs |-> shape, dirStat |-> ds, badDirs |-> {},
    files |-> [p \in ps |-> File(10, 1, 1000, 1000)]] :
     <<shape, ds, ps>> \in
       {x \in DirShapes \X DirStatSizes \X
                SUBSET {Join(d, n) : d \in {ScanPath, DirA, DirAB, DirAC, DirACD},
                                     n \in CleanNames} :
          /\ Cardinality(x[3]) <= MaxFiles
          /\ \A p \in x[3] : Dirname(p) \in x[1] \cup {ScanPath}}}

\* the duplicates family, single files: up to three files in three
\* directories, each of size 1 or 2, content 1 or 2, changed at 1000 or 2000
SingleNames == {<<"", "r", "A.jpg">>, <<"", "r", "a", "A.jpg">>,
                <<"", "r", "b", "IMG.jpg">>}
Variants == {File(sz, h, ct, bt) : sz \in {1, 2}, h \in {1, 2},
                                    ct \in {1000, 2000}, bt \in {3000}}
SingleTrees ==
  {[dirs |-> {DirA, DirB}, dirStat |-> 4096, badDirs |-> {}, files |-> f] :
     f \in UNION {[ps -> Variants] : ps \in SUBSET SingleNames}}

\* the duplicates family, filesets: IMG.jpg + IMG.xmp in a and in b, and
\* possibly a lone A.jpg with the content of a/IMG.jpg beside them
AJpg == <<"", "r", "a", "IMG.jpg">>
AXmp == <<"", "r", "a", "IMG.xmp">>
BJpg == <<"", "r", "b", "IMG.jpg">>
BXmp == <<"", "r", "b", "IMG.xmp">>
Times == {1000, 2000}
FilesetTrees ==
  {[dirs |-> {DirA, DirB}, dirStat |-> 4096, badDirs |-> {},
    files |-> (AJpg :> File(2, 1, x[1], 3000)) @@ (AXmp :> File(x[5], 3, x[2], 3000))
              @@ (BJpg :> File(2, x[6], x[3], 3000))
              @@ (BXmp :> File(x[5], x[7], x[4], 3000))
              @@ [p \in x[8] |-> File(2, 1, 1500, 3000)]] :
     x \in Times \X Times \X Times \X Times \X {1, 2} \X {1, 2} \X {3, 4}
             \X {{}, {<<"", "r", "A.jpg">>}}}

\* the duplicates family, unreadable files: up to three files of one size
\* and one content, each rw-rw-r-- or without any permission bit
UnreadableFile == [File(1, 1, 1000, 3000) EXCEPT !.mode = 32768]
UnreadableTrees ==
  {[dirs |-> {DirA, DirB}, dirStat |-> 4096, badDirs |-> {}, files |-> f] :
     f \in UNION {[ps -> {File(1, 1, 1000, 3000), UnreadableFile}] :
                    ps \in SUBSET SingleNames}}

AnalyzeTrees == CleanTrees \cup SingleTrees \cup FilesetTrees \cup UnreadableTrees

\* the inputs of rebasePath: a bin and a target below the same prefix
RebasePrefixes == {<<"">>, <<"", "r">>}
RebaseNames == {"a", "b", "#recycle"}
SeqsUpTo(S, n) == UNION {[1..k -> S] : k \in 1..n}
RebaseInputs ==
  {[basePath |-> Join(pre, bin), targetPath |-> pre \o segs] :
     pre \in RebasePrefixes, bin \in {"#recycle", "a"},
     segs \in SeqsUpTo(RebaseNames, MaxDepth)}

\* the inputs of determineOriginal: up to three scanner items of distinct
\* paths in any order, each changed at 1000 or at 2000
OriginalItem(p, ctimeMs) ==
  [path |-> p, name |-> Basename(p), dir |-> Dirname(p),
   stats |-> [ctimeMs |-> ctimeMs, birthtimeMs |-> 3000]]
OriginalInputs ==
  {[i \in DOMAIN ps |-> OriginalItem(ps[i], cs[i])] :
     ps \in {q \in SeqsUpTo(SingleNames, 3) : \A i, j \in DOMAIN q : i # j => q[i] # q[j]},
     cs \in [1..3 -> Times]}

\* the inputs of extractOldestDate: at most one EXIF date, the dates found
\* in the path and the mtime, each before, at or after the threshold
DateValues == {0 - 1000, 0, 1000, 2679400, 3024000}
DateInputs ==
  {[exifDates |-> e, pathDates |-> p, mtime |-> m] :
     e \in {{}} \cup {{d} : d \in DateValues}, p \in SUBSET DateValues,
     m \in DateValues}

(***************************************************************************)
(* The analyzers on their own: one scan of a tree, then one call of an     *)
(* analyzer on the scan model; rebasePath on a chosen pair of paths.       *)
(***************************************************************************)
EmptyTree == [dirs |-> {}, dirStat |-> 0, badDirs |-> {}, files |-> <<>>]
EmptyScan == [directories |-> <<>>, files |-> <<>>]
EmptyOperations ==
  [preCleanup |-> <<>>, duplicate |-> <<>>, orphan |-> <<>>, permissions |-> <<>>,
   ownership |-> <<>>, reorganize |-> <<>>, postCleanup |-> <<>>]
NoExecutor == [pass |-> 0]
EmptyThresholds == {0, 10}

InitAnalyze ==
  /\ \/ /\ tree \in AnalyzeTrees
        /\ pc = "start"
        /\ out = <<>>
     \/ /\ tree = EmptyTree
        /\ pc = "rebase"
        /\ out \in RebaseInputs
     \/ /\ tree = EmptyTree
        /\ pc = "original"
        /\ out \in OriginalInputs
     \/ /\ tree = EmptyTree
        /\ pc = "dates"
        /\ out \in DateInputs
  /\ tree0 = tree
  /\ actions = {}
  /\ scan = EmptyScan
  /\ operations = EmptyOperations
  /\ destructivePaths = {}
  /\ ex = NoExecutor
  /\ done = <<>>
  /\ log = <<>>

AnalyzeScan ==
  /\ pc = "start"
  /\ scan' = ScanDirectory(tree)
  /\ pc' = "scanned"
  /\ UNCHANGED <<tree, tree0, actions, operations, destructivePaths, out, ex, done, log>>

AnalyzeCleanUp ==
  /\ pc = "scanned"
  /\ \E emptyThreshold \in EmptyThresholds :
       out' = [emptyThreshold |-> emptyThreshold,
               result |-> GetCleanUpItems(scan, ScanPath, RecycleBinPath,
                                          emptyThreshold)]
  /\ pc' = "cleanup"
  /\ UNCHANGED <<tree, tree0, actions, scan, operations, destructivePaths, ex, done, log>>

AnalyzeOrphans ==
  /\ pc = "scanned"
  /\ out' = GetOrphanItems(scan, ScanPath, RecycleBinPath)
  /\ pc' = "orphans"
  /\ UNCHANGED <<tree, tree0, actions, scan, operations, destructivePaths, ex, done, log>>

\* steps 3 and 4 of extractOldestDate on the dates of steps 1 and 2
AnalyzeDates ==
  /\ pc = "dates"
  /\ out' = [exifDates |-> out.exifDates, pathDates |-> out.pathDates,
             mtime |-> out.mtime,
             date |-> OldestValid(CandidateDates(out.exifDates, out.pathDates,
                                                 out.mtime))]
  /\ pc' = "dated"
  /\ UNCHANGED <<tree, tree0, actions, scan, operations, destructivePaths, ex, done, log>>

\* getPermissionFiles under a spelling of the configured permissions
PermissionSpellings == {"664", "0o664"} \X {"775", "0o775"}
AnalyzePermissions ==
  /\ pc = "scanned"
  /\ \E perms \in PermissionSpellings :
       out' = [filePerm |-> perms[1], dirPerm |-> perms[2],
               result |-> GetPermissionFiles(scan, perms[1], perms[2])]
  /\ pc' = "permissions"
  /\ UNCHANGED <<tree, tree0, actions, scan, operations, destructivePaths, ex, done, log>>

AnalyzeDuplicates ==
  /\ pc = "scanned"
  /\ out' = GetDuplicateItems(tree, scan, RecycleBinPath)
  /\ pc' = "duplicates"
  /\ UNCHANGED <<tree, tree0, actions, scan, operations, destructivePaths, ex, done, log>>

AnalyzeRebase ==
  /\ pc = "rebase"
  /\ out' = [basePath |-> out.basePath, targetPath |-> out.targetPath,
             result |-> RebasePath(out.basePath, out.targetPath)]
  /\ pc' = "rebased"
  /\ UNCHANGED <<tree, tree0, actions, scan, operations, destructivePaths, ex, done, log>>

AnalyzeOriginal ==
  /\ pc = "original"
  /\ out' = [files |-> out, result |-> DetermineOriginal(out)]
  /\ pc' = "originalFound"
  /\ UNCHANGED <<tree, tree0, actions, scan, operations, destructivePaths, ex, done, log>>

NextAnalyze ==
  \/ AnalyzeScan
  \/ AnalyzeCleanUp
  \/ AnalyzeOrphans
  \/ AnalyzeDuplicates
  \/ AnalyzeRebase
  \/ AnalyzeOriginal
  \/ AnalyzePermissions
  \/ AnalyzeDates

SpecAnalyze == InitAnalyze /\ [][NextAnalyze]_vars

(***************************************************************************)
(* executeOperations (utils/executor.mjs).  ex holds its locals: the kinds *)
(* of the operations object in key order, the index k of the kind at hand, *)
(* the index i of the item at hand (0 before the class prompt), the answer *)
(* answers[operation] of the kind at hand ("" while undefined), and, for   *)
(* the record in done, the class answer, the answers given so far for the  *)
(* items of the kind, and whether 'c' was answered earlier in the pass.    *)
(***************************************************************************)
\* the kinds with reorganize ahead of permissions and ownership
KindsReorganizeFirst ==
  <<"preCleanup", "duplicate", "orphan", "reorganize", "permissions",
    "ownership", "postCleanup">>

\* the keys of the operations object of app.mjs, in the order of the literal
Kinds ==
  <<"preCleanup", "duplicate", "orphan", "permissions", "ownership",
    "reorganize", "postCleanup">>

\* the lines of the logger that mark the steps of a run: app.mjs before
\* scanDirectory, executeOperations at its start and at its end, app.mjs
\* before the post-cleanup call of getCleanUpItems and in its catch
LogScanning == "Scanning directory..."
LogExecuting == "Executing pending operations..."
LogAllDone == "All actions done."
LogPostClean == "Checking for items to post-clean..."
LogError == "An error occurred"
LogOwnerNotFound == "An error occurred: User or group not found."

\* the log after a step that ends at position p: the catch of app.mjs
\* writes its line when the step threw
LogAfter(l, p) == IF p = "failed" THEN Append(l, LogError) ELSE l

StartExecutor(pass, kinds, after) ==
  [pass |-> pass, kinds |-> kinds, after |-> after, k |-> 1, i |-> 0,
   answer |-> "", class |-> "", given |-> <<>>, cancelled |-> FALSE]

\* the next kind of the for-in loop
NextKind(e) ==
  [e EXCEPT !.k = @ + 1, !.i = 0, !.answer = "", !.class = "", !.given = <<>>]

\* the next item of the for-of loop, or the next kind after the last item
NextItem(e, length, answer, given) ==
  IF e.i < length
  THEN [e EXCEPT !.i = @ + 1, !.answer = answer, !.given = Append(@, given)]
  ELSE NextKind(e)

\* a class prompt that lets every answer but 'n' through
ProceedUnlessNo(answer) == answer # "n"

\* getProceedAnswer: return answer === 'y'
Proceed(answer) == answer = "y"

\* ['y', 'a'].includes(answers[operation]) || yesAllItems
Handles(answer, yesAllItems) == answer \in {"y", "a"} \/ yesAllItems

\* the record of one call of doOperation
Done(e, item, given) ==
  [pass |-> e.pass, kind |-> e.kinds[e.k], index |-> e.i, path |-> item.path,
   class |-> e.class, given |-> given,
   allBefore |-> \E j \in DOMAIN e.given : e.given[j] = "a",
   cancelled |-> e.cancelled]

\* the kind has no items: continue
ExecSkipKind ==
  /\ pc = "execute"
  /\ ex.k <= Len(ex.kinds)
  /\ ex.i = 0
  /\ operations[ex.kinds[ex.k]] = <<>>
  /\ ex' = NextKind(ex)
  /\ UNCHANGED <<tree, tree0, actions, pc, scan, operations, destructivePaths, out,
                 done, log>>

\* the class prompt: 's' shows the items and asks again, 'y' enters the
\* item loop, 'n' and 'c' go on with the next kind
ExecProceed ==
  /\ pc = "execute"
  /\ ex.k <= Len(ex.kinds)
  /\ ex.i = 0
  /\ operations[ex.kinds[ex.k]] # <<>>
  /\ \E answer \in {"y", "n", "c", "s"} :
       ex' = IF answer = "s" THEN ex
             ELSE IF Proceed(answer) THEN [ex EXCEPT !.i = 1, !.class = answer]
             ELSE NextKind([ex EXCEPT !.cancelled = @ \/ answer = "c"])
  /\ UNCHANGED <<tree, tree0, actions, pc, scan, operations, destructivePaths, out,
                 done, log>>

\* one round of the item loop: break after 'c'; with no 'a' so far the
\* item is shown, which reads item.stats and throws when there is none,
\* and the operator is asked; the item is handled on 'y', 'a' or after 'a'
ExecItem ==
  /\ pc = "execute"
  /\ ex.k <= Len(ex.kinds)
  /\ ex.i >= 1
  /\ LET items == operations[ex.kinds[ex.k]]
         item == items[ex.i]
     IN IF ex.answer = "c"
        THEN /\ ex' = NextKind(ex)
             /\ UNCHANGED <<tree, pc, done>>
        ELSE IF ex.answer = "a"
        THEN /\ tree' = DoOperation(tree, item)
             /\ done' = Append(done, Done(ex, item, ""))
             /\ ex' = NextItem(ex, Len(items), ex.answer, "")
             /\ pc' = pc
        ELSE IF "stats" \notin DOMAIN item
        THEN /\ pc' = "failed"
             /\ UNCHANGED <<tree, ex, done>>
        ELSE \E answer \in {"y", "a", "n", "c"} :
               /\ tree' = IF Handles(answer, FALSE) THEN DoOperation(tree, item)
                          ELSE tree
               /\ done' = IF Handles(answer, FALSE)
                          THEN Append(done, Done(ex, item, answer)) ELSE done
               /\ ex' = NextItem([ex EXCEPT !.cancelled = @ \/ answer = "c"],
                                 Len(items), answer, answer)
               /\ pc' = pc
  /\ log' = LogAfter(log, pc')
  /\ UNCHANGED <<tree0, actions, scan, operations, destructivePaths, out>>

\* all kinds are through: executeOperations returns
ExecReturn ==
  /\ pc = "execute"
  /\ ex.k > Len(ex.kinds)
  /\ pc' = ex.after
  /\ log' = Append(log, LogAllDone)
  /\ UNCHANGED <<tree, tree0, actions, scan, operations, destructivePaths, out, ex,
                 done>>

(***************************************************************************)
(* The executor on its own: a plan handed to executeOperations over a      *)
(* tree whose recycle bin may already hold a file from an earlier run.     *)
(***************************************************************************)
BinA == <<"", "r", "#recycle", "a">>
ThumbsA == <<"", "r", "a", "Thumbs.db">>
ThumbsBin == <<"", "r", "#recycle", "a", "Thumbs.db">>
JpgRoot == <<"", "r", "A.jpg">>

\* /r/a/Thumbs.db and /r/A.jpg (rw-r--r--, owned by root), and possibly
\* /r/#recycle/a/Thumbs.db from an earlier run, each with its own content
ExecTrees ==
  {[dirs |-> {DirA} \cup bin, dirStat |-> 4096, badDirs |-> {},
    files |-> (ThumbsA :> File(10, 1, 2000, 2000))
              @@ (JpgRoot :> [File(10, 3, 1000, 1000) EXCEPT
                                !.mode = 33188, !.uid = 0, !.gid = 0])
              @@ [p \in (IF bin = {} THEN {} ELSE {ThumbsBin}) |->
                    File(10, 2, 1000, 1000)]] :
     bin \in {{}, {RecycleBinPath, BinA}}}

\* items as the analyzers emit them: the scanner's entry (with stats) and
\* the fields of the operation
MoveItems(t) ==
  {[path |-> p, move_to |-> RebasePath(RecycleBinPath, p),
    stats |-> Stat(t, p)] : p \in {ThumbsA, JpgRoot, DirA}}
ChmodItem(t) ==
  [path |-> JpgRoot, mode |-> 420, change_mode |-> 436, fsChmodValue |-> 436,
   stats |-> Stat(t, JpgRoot)]
ChownItem(t) ==
  [path |-> JpgRoot, new_owner_id |-> SystemUser, new_group_id |-> SystemGroup,
   stats |-> Stat(t, JpgRoot)]

MoveToMonthItem(t) ==
  [path |-> JpgRoot, move_to |-> <<"", "r", "1970", "01", "A.jpg">>,
   date_found |-> 1000, stats |-> Stat(t, JpgRoot)]

\* the item as app.mjs rebuilds it: without stats
WithoutStats(item) == [f \in DOMAIN item \ {"stats"} |-> item[f]]

\* sequences of up to n distinct members of S
DistinctSeqs(S, n) ==
  {q \in UNION {[1..k -> S] : k \in 0..n} :
     \A i, j \in DOMAIN q : i # j => q[i] # q[j]}

ExecPlans(t) ==
  {[EmptyOperations EXCEPT !.preCleanup = pre, !.permissions = perm,
                           !.ownership = own, !.reorganize = reorg] :
     pre \in DistinctSeqs(MoveItems(t), MaxItems),
     perm \in {<<>>, <<ChmodItem(t)>>},
     own \in {<<>>, <<ChownItem(t)>>},
     reorg \in {<<>>, <<MoveToMonthItem(t)>>}}

StripPlan(plan) ==
  [kind \in DOMAIN plan |->
     [i \in DOMAIN plan[kind] |-> WithoutStats(plan[kind][i])]]

InitExec ==
  /\ tree \in ExecTrees
  /\ tree0 = tree
  /\ \E plan \in ExecPlans(tree) : operations \in {plan, StripPlan(plan)}
  /\ pc = "execute"
  /\ ex = StartExecutor(1, Kinds, "end")
  /\ actions = {}
  /\ scan = EmptyScan
  /\ destructivePaths = {}
  /\ out = <<>>
  /\ done = <<>>
  /\ log = <<>>

NextExec ==
  \/ ExecSkipKind
  \/ ExecProceed
  \/ ExecItem
  \/ ExecReturn

SpecExec == InitExec /\ [][NextExec]_vars

(***************************************************************************)
(* app.mjs: the plan of a run and its execution.                           *)
(***************************************************************************)
ActionNames ==
  {"duplicates", "orphans", "pre-cleanup", "reorganize", "permissions",
   "ownership", "post-cleanup"}

\* config.filePerm, config.dirPerm, config.owner_user, config.owner_group
FilePerm == "664"
DirPerm == "775"
OwnerUser == "admin"
OwnerGroup == "users"

\* the files of the pipeline family: rw-rw-r-- and the configured owner, or
\* rw-r--r-- and root
GoodFile == File(10, 1, 1000, 1000)
BadFile == [File(10, 1, 2000, 2000) EXCEPT !.mode = 33188, !.uid = 0, !.gid = 0]
PipeNames ==
  {<<"", "r", "A.jpg">>, <<"", "r", "a", "A.jpg">>, <<"", "r", "a", "Thumbs.db">>,
   <<"", "r", "b", "Thumbs.db">>, <<"", "r", "b", "desktop.ini">>}

\* directories a and b (b with mode rwxr-xr-x) and at most MaxFiles files;
\* ownerFound: /etc/passwd and /etc/group hold a line for the configured
\* owner_user and owner_group
PipeTrees ==
  {[dirs |-> {DirA, DirB}, dirStat |-> 4096, badDirs |-> {DirB}, files |-> f,
    ownerFound |-> o] :
     o \in BOOLEAN,
     f \in UNION {[ps -> {GoodFile, BadFile}] :
                    ps \in {qs \in SUBSET PipeNames : Cardinality(qs) <= MaxFiles}}}

\* getOrphanItems as app.mjs calls it, with scan.files for items: a Map
\* has no property `files`, Array.from(undefined) throws
GetOrphanItemsOfMap(files) == [threw |-> TRUE, files |-> <<>>]

PreCleanupOperation(item) ==
  [depth |-> item.depth, dir |-> item.dir, path |-> item.path, size |-> item.size,
   move_to |-> item.move_to, reason |-> item.reason]

PreCleanupOperations(r) ==
  [i \in DOMAIN (r.files \o r.directories) |->
     PreCleanupOperation((r.files \o r.directories)[i])]

\* a plan without the test on destructivePaths
KeptAlways(item, destructive) == TRUE

\* if (!destructivePaths.has(item.path))
Kept(item, destructive) == item.path \notin destructive

ReorganizeOperations(r, destructive) ==
  Flatten([i \in DOMAIN r.files |->
     IF Kept(r.files[i], destructive)
     THEN <<[path |-> r.files[i].path, move_to |-> r.files[i].move_to,
             date_found |-> r.files[i].date]>>
     ELSE <<>>])

PermissionOperations(wrong, destructive) ==
  Flatten([i \in DOMAIN wrong |->
     IF Kept(wrong[i], destructive)
     THEN <<[path |-> wrong[i].path, mode |-> wrong[i].currentMode,
             change_mode |-> wrong[i].desiredMode,
             fsChmodValue |-> wrong[i].fsChmodValue]>>
     ELSE <<>>])

OwnershipOperations(wrong, destructive) ==
  Flatten([i \in DOMAIN wrong |->
     IF Kept(wrong[i], destructive)
     THEN <<[path |-> wrong[i].path, owner |-> wrong[i].currentUid,
             group |-> wrong[i].currentGid, new_owner |-> wrong[i].expectedUser,
             new_group |-> wrong[i].expectedGroup,
             new_owner_id |-> wrong[i].expectedUid,
             new_group_id |-> wrong[i].expectedGid]>>
     ELSE <<>>])

Init ==
  /\ tree \in PipeTrees
  /\ tree0 = tree
  /\ actions \in SUBSET ActionNames
  /\ pc = "start"
  /\ scan = EmptyScan
  /\ operations = EmptyOperations
  /\ destructivePaths = {}
  /\ out = <<>>
  /\ ex = StartExecutor(1, Kinds, "postCleanup")
  /\ done = <<>>
  /\ log = <<>>

AppScan ==
  /\ pc = "start"
  /\ scan' = ScanDirectory(tree)
  /\ pc' = "duplicates"
  /\ log' = Append(log, LogScanning)
  /\ UNCHANGED <<tree, tree0, actions, operations, destructivePaths, out, ex, done>>

AddDuplicates(duplicates) ==
  IF duplicates.threw
  THEN pc' = "failed" /\ UNCHANGED <<operations, destructivePaths>>
  ELSE /\ pc' = "orphans"
       /\ destructivePaths' = destructivePaths \cup Paths(FlatValues(duplicates))
       /\ operations' = [operations EXCEPT
                           !.duplicate = @ \o DuplicateOperations(duplicates)]

AppDuplicates ==
  /\ pc = "duplicates"
  /\ IF "duplicates" \in actions
     THEN AddDuplicates(GetDuplicateItems(tree, scan, RecycleBinPath))
     ELSE pc' = "orphans" /\ UNCHANGED <<operations, destructivePaths>>
  /\ log' = LogAfter(log, pc')
  /\ UNCHANGED <<tree, tree0, actions, scan, out, ex, done>>

AppOrphans ==
  /\ pc = "orphans"
  /\ pc' = IF "orphans" \in actions /\ GetOrphanItemsOfMap(scan.files).threw
           THEN "failed" ELSE "preCleanup"
  /\ log' = LogAfter(log, pc')
  /\ UNCHANGED <<tree, tree0, actions, scan, operations, destructivePaths, out, ex,
                 done>>

AddPreCleanup(ops) ==
  /\ destructivePaths' = destructivePaths \cup Paths(ops)
  /\ operations' = [operations EXCEPT !.preCleanup = @ \o ops]

\* a pre-cleanup block that claims its paths whether or not the action is
\* enabled
AppPreCleanupLeaking ==
  /\ pc = "preCleanup"
  /\ destructivePaths' =
       destructivePaths
         \cup Paths(PreCleanupOperations(
                      GetCleanUpItems(scan, ScanPath, RecycleBinPath, 0)))
  /\ operations' =
       IF "pre-cleanup" \in actions
       THEN [operations EXCEPT !.preCleanup =
               @ \o PreCleanupOperations(
                      GetCleanUpItems(scan, ScanPath, RecycleBinPath, 0))]
       ELSE operations
  /\ pc' = "reorganize"
  /\ UNCHANGED <<tree, tree0, actions, scan, out, ex, done, log>>

AppPreCleanup ==
  /\ pc = "preCleanup"
  /\ IF "pre-cleanup" \in actions
     THEN AddPreCleanup(PreCleanupOperations(
            GetCleanUpItems(scan, ScanPath, RecycleBinPath, 0)))
     ELSE UNCHANGED <<operations, destructivePaths>>
  /\ pc' = "reorganize"
  /\ UNCHANGED <<tree, tree0, actions, scan, out, ex, done, log>>

AppReorganize ==
  /\ pc = "reorganize"
  /\ operations' =
       IF "reorganize" \in actions
       THEN [operations EXCEPT !.reorganize =
               @ \o ReorganizeOperations(GetReorganizeItems(scan, RelativePath),
                                         destructivePaths)]
       ELSE operations
  /\ pc' = "permissions"
  /\ UNCHANGED <<tree, tree0, actions, scan, destructivePaths, out, ex, done, log>>

AppPermissions ==
  /\ pc = "permissions"
  /\ operations' =
       IF "permissions" \in actions /\ FilePerm # "" /\ DirPerm # ""
       THEN [operations EXCEPT !.permissions =
               @ \o PermissionOperations(GetPermissionFiles(scan, FilePerm, DirPerm),
                                         destructivePaths)]
       ELSE operations
  /\ pc' = "ownership"
  /\ UNCHANGED <<tree, tree0, actions, scan, destructivePaths, out, ex, done, log>>

\* getOwnershipFiles throws when the owner is not found, and the throw
\* ends the run in the catch of app.mjs; otherwise executeOperations starts
AppOwnership ==
  /\ pc = "ownership"
  /\ pc' = IF "ownership" \in actions /\ OwnerUser # "" /\ OwnerGroup # ""
              /\ ~OwnerFound(tree)
           THEN "failed" ELSE "execute"
  /\ operations' =
       IF "ownership" \in actions /\ OwnerUser # "" /\ OwnerGroup # ""
          /\ OwnerFound(tree)
       THEN [operations EXCEPT !.ownership =
               @ \o OwnershipOperations(GetOwnershipFiles(scan, OwnerUser, OwnerGroup),
                                        destructivePaths)]
       ELSE operations
  /\ log' = Append(log, IF pc' = "failed" THEN LogOwnerNotFound ELSE LogExecuting)
  /\ UNCHANGED <<tree, tree0, actions, scan, destructivePaths, out, ex, done>>

\* the post-cleanup block: the cleanup runs on the scan made before the
\* execution; new Map(items) over the emitted objects holds the single
\* entry undefined -> undefined, whose item.path throws
AddPostCleanup(r) ==
  IF r.files \o r.directories # <<>>
  THEN pc' = "failed" /\ UNCHANGED ex
  ELSE pc' = "execute" /\ ex' = StartExecutor(2, <<"postCleanup">>, "end")

AppPostCleanup ==
  /\ pc = "postCleanup"
  /\ IF "post-cleanup" \in actions
     THEN AddPostCleanup(GetCleanUpItems(scan, ScanPath, RecycleBinPath, 0))
     ELSE pc' = "execute" /\ ex' = StartExecutor(2, <<"postCleanup">>, "end")
  /\ log' = (IF "post-cleanup" \in actions THEN Append(log, LogPostClean) ELSE log)
            \o (IF pc' = "failed" THEN <<LogError>> ELSE <<LogExecuting>>)
  /\ UNCHANGED <<tree, tree0, actions, scan, operations, destructivePaths, out, done>>

Next ==
  \/ AppScan
  \/ AppDuplicates
  \/ AppOrphans
  \/ AppPreCleanup
  \/ AppReorganize
  \/ AppPermissions
  \/ AppOwnership
  \/ ExecSkipKind
  \/ ExecProceed
  \/ ExecItem
  \/ ExecReturn
  \/ AppPostCleanup

Spec == Init /\ [][Next]_vars

(***************************************************************************)
(* The reorganizer run twice: scan, getReorganizeItems, every operation    *)
(* applied by doOperation in the order of the plan, then the same again.   *)
(***************************************************************************)
Dir1970 == <<"", "r", "1970">>
Dir197001 == <<"", "r", "1970", "01">>

\* where the files of the family lie: in the scanned directory, in a and
\* b, and in the directory of January 1970
ReorganizeNames ==
  {<<"", "r", "A.jpg">>, <<"", "r", "a", "A.jpg">>, <<"", "r", "b", "A.jpg">>,
   <<"", "r", "a", "19700205.jpg">>, <<"", "r", "a", "Thumbs.db">>,
   <<"", "r", "a", "desktop.ini">>, <<"", "r", "1970", "01", "A.jpg">>,
   <<"", "r", "A__a.jpg">>}

\* modified at the epoch, in January or in February 1970; each file has
\* its own content
Mtimes == {0, 1000, 2679400}
ReorganizeFile(p, mtime) ==
  [File(10, NameRank(Basename(p)) + 10 * Len(p) + (mtime % 7), 1000, 1000)
     EXCEPT !.mtime = mtime]

ReorganizeTrees ==
  {[dirs |-> {DirA, DirB, Dir1970, Dir197001}, dirStat |-> 4096, badDirs |-> {},
    files |-> [p \in DOMAIN m |-> ReorganizeFile(p, m[p])]] :
     m \in UNION {[ps -> Mtimes] :
                    ps \in {qs \in SUBSET ReorganizeNames : Cardinality(qs) <= MaxFiles}}}

\* doOperation on every operation of a sequence, in its order
RECURSIVE ApplyOperations(_, _)
ApplyOperations(t, ops) ==
  IF ops = <<>> THEN t ELSE ApplyOperations(DoOperation(t, Head(ops)), Tail(ops))

InitReorganize ==
  /\ tree \in ReorganizeTrees
  /\ tree0 = tree
  /\ pc = "start"
  /\ out = <<>>
  /\ actions = {"reorganize"}
  /\ scan = EmptyScan
  /\ operations = EmptyOperations
  /\ destructivePaths = {}
  /\ ex = NoExecutor
  /\ done = <<>>
  /\ log = <<>>

\* the scan of a run
ReorganizeScan ==
  /\ pc \in {"start", "applied"}
  /\ scan' = ScanDirectory(tree)
  /\ pc' = IF pc = "start" THEN "scanned" ELSE "rescanned"
  /\ UNCHANGED <<tree, tree0, actions, operations, destructivePaths, out, ex, done, log>>

\* the reorganize block of a run
ReorganizePlan ==
  /\ pc \in {"scanned", "rescanned"}
  /\ operations' =
       [operations EXCEPT !.reorganize =
          ReorganizeOperations(GetReorganizeItems(scan, RelativePath), {})]
  /\ pc' = IF pc = "scanned" THEN "planned" ELSE "replanned"
  /\ UNCHANGED <<tree, tree0, actions, scan, destructivePaths, out, ex, done, log>>

\* every operation of the first run applied
ReorganizeApply ==
  /\ pc = "planned"
  /\ tree' = ApplyOperations(tree, operations.reorganize)
  /\ out' = operations.reorganize
  /\ pc' = "applied"
  /\ UNCHANGED <<tree0, actions, scan, operations, destructivePaths, ex, done, log>>

NextReorganize ==
  \/ ReorganizeScan
  \/ ReorganizePlan
  \/ ReorganizeApply

SpecReorganize == InitReorganize /\ [][NextReorganize]_vars

(***************************************************************************)
(* The per-file I/O tasks of an analyzer.  The reorganizer wraps the task  *)
(* of each file in FILE_LIMIT = pLimit(10), which starts a task only while *)
(* fewer than ten are active; the file stage of groupItems maps            *)
(* hashFileChunk over the members of a fileset inside Promise.all, so the  *)
(* synchronous map has opened every member before any hash settles.        *)
(* out: the analyzer, the number of files, the tasks started and settled.  *)
(***************************************************************************)
MaxMembers == 12
FileLimit == 10

TaskInputs ==
  {[analyzer |-> a, members |-> n, started |-> 0, settled |-> 0] :
     a \in {"reorganize", "duplicates"}, n \in 1..MaxMembers}

\* the tasks that have started and not settled
InFlight(o) == o.started - o.settled

InitTasks ==
  /\ tree = EmptyTree
  /\ tree0 = tree
  /\ pc = "tasks"
  /\ out \in TaskInputs
  /\ actions = {}
  /\ scan = EmptyScan
  /\ operations = EmptyOperations
  /\ destructivePaths = {}
  /\ ex = NoExecutor
  /\ done = <<>>
  /\ log = <<>>

\* the next task starts: under pLimit when a slot is free, under the bare
\* Promise.all at once
TaskStart ==
  /\ pc = "tasks"
  /\ out.started < out.members
  /\ out.analyzer = "reorganize" => InFlight(out) < FileLimit
  /\ out' = [out EXCEPT !.started = @ + 1]
  /\ UNCHANGED <<tree, tree0, actions, pc, scan, operations, destructivePaths, ex,
                 done, log>>

\* a task settles; a hash of the Promise.all settles only after the map has
\* run over every member
TaskSettle ==
  /\ pc = "tasks"
  /\ InFlight(out) > 0
  /\ out.analyzer = "duplicates" => out.started = out.members
  /\ out' = [out EXCEPT !.settled = @ + 1]
  /\ UNCHANGED <<tree, tree0, actions, pc, scan, operations, destructivePaths, ex,
                 done, log>>

NextTasks ==
  \/ TaskStart
  \/ TaskSettle

SpecTasks == InitTasks /\ [][NextTasks]_vars

(***************************************************************************)
(* Properties of the analyzers.                                            *)
(***************************************************************************)
\* the paths one cleanup analysis emits, files and directories together
CleanUpPaths(r) ==
  {r.files[i].path : i \in DOMAIN r.files}
    \cup {r.directories[i].path : i \in DOMAIN r.directories}

\* C5: in the output of one cleanup analysis no emitted candidate lies
\* beneath another emitted candidate.
C5_NoCandidateBeneathAnother ==
  pc = "cleanup" =>
    \A p, q \in CleanUpPaths(out.result) : p # q => ~IsPrefix(q, p)

\* a directory with no file anywhere beneath it
NoFileBeneath(t, d) == \A p \in FilePaths(t) : ~IsPrefix(d, p)
\* the topmost such directory of its branch
TopmostEmpty(t, d) ==
  NoFileBeneath(t, d) /\ (Dirname(d) = ScanPath \/ ~NoFileBeneath(t, Dirname(d)))

\* the general statement of C6: the topmost directory of a subtree without
\* files is emitted (or lies in an emitted directory) and none of its
\* descendants is
TopmostEmptyDirectoryOnly ==
  (pc = "cleanup" /\ out.emptyThreshold = 0) =>
    \A d \in tree.dirs : TopmostEmpty(tree, d) =>
      /\ \E a \in CleanUpPaths(out.result) : IsPrefix(a, d)
      /\ \A e \in tree.dirs : (IsPrefix(d, e) /\ e # d) =>
           e \notin CleanUpPaths(out.result)

\* the tree of the scenario of C6
C6_ScenarioTree(t) ==
  /\ t.dirs = {DirA, DirAB, DirAC, DirACD}
  /\ FilePaths(t) = {<<"", "r", "keep.txt">>}

\* the scenario of C6: the cleanup of /r/a/b, /r/a/c/d, /r/keep.txt emits
\* /r/a and nothing else
ScenarioEmitsExactlyA ==
  (pc = "cleanup" /\ out.emptyThreshold = 0 /\ C6_ScenarioTree(tree)) =>
    CleanUpPaths(out.result) = {DirA}

\* C6: with emptyThreshold 0, a non-root directory whose subtree holds no
\* file, only empty directories, is emitted at its topmost directory and
\* none of its descendants is; for /r/a/b, /r/a/c/d, /r/keep.txt the cleanup
\* emits exactly /r/a.
C6_PreCleanupEmitsTopmostEmptyOnly ==
  TopmostEmptyDirectoryOnly /\ ScenarioEmitsExactlyA

\* C9: the orphan analyzer emits a file exactly when it is the only file
\* directly in its directory, whatever else the directory contains.
C9_OrphanIffOnlyFileOfItsDirectory ==
  pc = "orphans" =>
    \A p \in FilePaths(tree) :
      (p \in {out.files[i].path : i \in DOMAIN out.files})
        <=> ({q \in FilePaths(tree) : Dirname(q) = Dirname(p)} = {p})

\* C10: for a bin P/<bin> and a source P/s1/.../sn that is not inside the
\* bin, rebasePath yields P/<bin>/s1/.../sn.
C10_RebaseMirrorsSourceBelowPrefix ==
  (pc = "rebased" /\ ~(IsPrefix(out.basePath, out.targetPath)
                         /\ out.targetPath # out.basePath)) =>
    out.result = out.basePath
                   \o SubSeq(out.targetPath, Len(out.basePath), Len(out.targetPath))

\* C10, witness: a source three segments below the prefix, outside the bin,
\* has been rebased segment for segment.
C10_Witness ==
  /\ pc = "rebased"
  /\ out.basePath = <<"", "r", "#recycle">>
  /\ out.targetPath = <<"", "r", "a", "b", "a">>
  /\ out.result = <<"", "r", "#recycle", "a", "b", "a">>

\* equal byte size and equal first-chunk hash
SameContent(t, p, q) ==
  t.files[p].size = t.files[q].size /\ t.files[p].hash = t.files[q].hash

\* min(ctimeMs, birthtimeMs)
Timestamp(t, p) == Min(t.files[p].ctimeMs, t.files[p].birthtimeMs)

\* the members of a class no other member is older than, the shorter name
\* deciding between equal timestamps
Oldest(t, class) ==
  {o \in class : \A g \in class :
     \/ Timestamp(t, o) < Timestamp(t, g)
     \/ /\ Timestamp(t, o) = Timestamp(t, g)
        /\ NameLength(Basename(o)) <= NameLength(Basename(g))}

\* the path of p mirrored below the recycle bin
Mirror(p) == RecycleBinPath \o SubSeq(p, Len(ScanPath) + 1, Len(p))

\* no two files of a directory form a fileset
NoFileset(t) ==
  \A p, q \in FilePaths(t) :
    (p # q /\ Dirname(p) = Dirname(q)) =>
      ExtractBaseName(Basename(p)) # ExtractBaseName(Basename(q))

\* the plan holds a Duplicate operation on path p naming original o
HasDuplicateOp(ops, p, o) ==
  \E i \in DOMAIN ops :
    ops[i].path = p /\ ops[i].original = o /\ ops[i].move_to = Mirror(p)
NoDuplicateOp(ops, p) == \A i \in DOMAIN ops : ops[i].path # p

\* C7: among the files of equal size and equal first-chunk hash, every
\* file but the oldest gets a Duplicate operation naming the oldest as
\* original, with its own path rebased onto the bin as destination, and the
\* oldest gets none (files that belong to no fileset).
C7_AllButOldestAreDuplicates ==
  (pc = "duplicates" /\ NoFileset(tree)) =>
    \A p \in FilePaths(tree) :
      LET class == {q \in FilePaths(tree) : SameContent(tree, p, q)}
      IN Cardinality(class) > 1 =>
           \E o \in Oldest(tree, class) :
             /\ NoDuplicateOp(DuplicateOperations(out), o)
             /\ \A g \in class \ {o} :
                  HasDuplicateOp(DuplicateOperations(out), g, o)

\* two filesets with pairwise matching content, the master of a older
MatchingFilesets(t) ==
  /\ {AJpg, AXmp, BJpg, BXmp} \subseteq FilePaths(t)
  /\ SameContent(t, AJpg, BJpg)
  /\ SameContent(t, AXmp, BXmp)
  /\ Timestamp(t, AJpg) < Timestamp(t, BJpg)

\* C8: when two filesets in different directories match member by member
\* and the master of the first is older, every member of the second gets a
\* Duplicate operation mapped to the corresponding member of the first, and
\* no member of the first gets one.
C8_YoungerFilesetIsTheDuplicate ==
  (pc = "duplicates" /\ MatchingFilesets(tree)) =>
    /\ HasDuplicateOp(DuplicateOperations(out), BJpg, AJpg)
    /\ HasDuplicateOp(DuplicateOperations(out), BXmp, AXmp)
    /\ NoDuplicateOp(DuplicateOperations(out), AJpg)
    /\ NoDuplicateOp(DuplicateOperations(out), AXmp)

DestructiveOperationPaths ==
  Paths(operations.preCleanup) \cup Paths(operations.duplicate)
    \cup Paths(operations.orphan) \cup Paths(operations.postCleanup)

NonDestructiveOperationPaths ==
  Paths(operations.reorganize) \cup Paths(operations.permissions)
    \cup Paths(operations.ownership)

\* C1: whatever actions are enabled, no path that has a reorganize,
\* permissions or ownership operation in the plan also has a pre-cleanup,
\* duplicate, orphan or post-cleanup operation.
C1_DestructiveExcludesNonDestructive ==
  DestructiveOperationPaths \cap NonDestructiveOperationPaths = {}

\* a duplicate with the wrong permissions, duplicates and permissions both
\* enabled: it has a duplicate operation and no permissions operation
C1_Witness ==
  /\ {"duplicates", "permissions"} \subseteq actions
  /\ pc = "execute"
  /\ \E p \in Paths(operations.duplicate) :
       /\ p \in Paths(GetPermissionFiles(scan, FilePerm, DirPerm))
       /\ p \notin Paths(operations.permissions)
       /\ operations.permissions # <<>>

\* C4: a path is in at most one of the four destructive sequences of the
\* plan (pre-cleanup, duplicate, orphan, post-cleanup).
C4_AtMostOneDestructiveSequence ==
  \A k1, k2 \in {"preCleanup", "duplicate", "orphan", "postCleanup"} :
    k1 # k2 => Paths(operations[k1]) \cap Paths(operations[k2]) = {}

(***************************************************************************)
(* Properties of the reorganizer run twice.                                *)
(***************************************************************************)
\* C11: after every Reorganize operation of a run has been applied and the
\* tree has been scanned again with the same configuration, the
\* reorganizer emits no Reorganize operation.
C11_ReorganizeIsIdempotent ==
  pc = "replanned" => operations.reorganize = <<>>

RankAsStated(kind) ==
  CASE kind = "preCleanup" -> 1 [] kind = "duplicate" -> 2 [] kind = "orphan" -> 3
    [] kind = "reorganize" -> 4 [] kind = "permissions" -> 5
    [] kind = "ownership" -> 6 [] kind = "postCleanup" -> 7

\* the place of a kind in the order pre-cleanup, duplicates, orphans,
\* permissions, ownership, reorganize, post-cleanup
RankAmended(kind) ==
  CASE kind = "preCleanup" -> 1 [] kind = "duplicate" -> 2 [] kind = "orphan" -> 3
    [] kind = "permissions" -> 4 [] kind = "ownership" -> 5
    [] kind = "reorganize" -> 6 [] kind = "postCleanup" -> 7

C14_PostCleanupUsesScanAfterFirstPass ==
  \A i \in DOMAIN log :
    log[i] = LogPostClean =>
      \E k, j \in DOMAIN log :
        k < j /\ j < i /\ log[k] = LogAllDone /\ log[j] = LogScanning

\* C15: when the configured owner user or group does not resolve to an id,
\* only the ownership action fails: a run that ended after that failure has
\* handed the operations of the other analyzers to the executor.
C15_OtherOperationsExecutedWhenOwnerNotFound ==
  (/\ pc \in {"failed", "end"}
   /\ \E i \in DOMAIN log : log[i] = LogOwnerNotFound
   /\ \E kind \in DOMAIN operations : operations[kind] # <<>>) =>
    \E j \in DOMAIN log : log[j] = LogExecuting

\* C16: when the bytes of a duplicate candidate cannot be read, the
\* duplicate analyzer does not fail: it returns its result, and the
\* unreadable candidate is neither reported as a duplicate nor named as the
\* original of one.
C16_UnreadableCandidateIsSkipped ==
  (pc = "duplicates" /\ \E p \in FilePaths(tree) : ~Readable(tree, p)) =>
    /\ ~out.threw
    /\ \A i \in DOMAIN out.files :
         /\ Readable(tree, out.files[i].path)
         /\ Readable(tree, out.files[i].duplicate_of)

\* the orders a list can be given in
PermutationsOf(s) == {[i \in DOMAIN s |-> s[f[i]]] : f \in Permutations(DOMAIN s)}

\* C17: determineOriginal returns the same element for every permutation of
\* its non-empty input list.
C17_OriginalIndependentOfInputOrder ==
  pc = "originalFound" =>
    \A q \in PermutationsOf(out.files) : DetermineOriginal(q) = out.result

\* C18: rebasePath(B, T) returns T unchanged whenever T is B extended by a
\* sub-path of one or more segments.
C18_RebaseKeepsPathsBelowBase ==
  (pc = "rebased" /\ IsPrefix(out.basePath, out.targetPath)
                  /\ out.targetPath # out.basePath) =>
    out.result = out.targetPath

(***************************************************************************)
(* Properties of the scan model.                                           *)
(***************************************************************************)
\* the sum of totalSize over the recorded directories directly in d
SubdirectoryTotals(directories, d) ==
  SumSeq([i \in DOMAIN directories |->
            IF directories[i].dir = d THEN directories[i].totalSize ELSE 0])

\* the sum of stats.size over the recorded directories directly in d
SubdirectoryStatSizes(directories, d) ==
  SumSeq([i \in DOMAIN directories |->
            IF directories[i].dir = d THEN directories[i].stats.size ELSE 0])

\* the sum of stats.size over the recorded files directly in d that are
\* not ignored
CountedFileSizes(files, d) ==
  SumSeq([i \in DOMAIN files |->
            IF files[i].dir = d /\ ~files[i].ignored THEN files[i].stats.size ELSE 0])

\* C19: after a scan, for every recorded directory d, d.totalSize is
\* d.intrinsicSize plus the sum of totalSize over the recorded directories
\* directly in d.
C19_TotalSizeIsIntrinsicPlusSubdirectories ==
  \A i \in DOMAIN scan.directories :
    scan.directories[i].totalSize =
      scan.directories[i].intrinsicSize
        + SubdirectoryTotals(scan.directories, scan.directories[i].path)

\* C19, witness: /r/a holds the ignored picasa.ini and the directories b and
\* c, c holds d, d holds keep.txt; a directory's st_size is 4096.  The scan
\* has recorded a with intrinsicSize 8192 and totalSize 12298.
C19_Witness ==
  /\ pc = "scanned"
  /\ tree.dirs = {DirA, DirAB, DirAC, DirACD}
  /\ tree.dirStat = 4096
  /\ FilePaths(tree) = {Join(DirA, "picasa.ini"), Join(DirACD, "keep.txt")}
  /\ MapGet(scan.directories, DirA).intrinsicSize = 8192
  /\ MapGet(scan.directories, DirA).totalSize = 12298
  /\ MapGet(scan.directories, DirAC).totalSize = 4106

\* C20: after a scan, for every recorded file f, the files directly in the
\* scan root included, the entry of f's parent directory exists in
\* `directories`, and its intrinsicSize counts, beside the directories
\* directly in it, the sizes of exactly the files directly in it that are
\* not ignored.
C20_ParentEntryCountsFile ==
  \A i \in DOMAIN scan.files :
    /\ MapHas(scan.directories, scan.files[i].dir)
    /\ MapGet(scan.directories, scan.files[i].dir).intrinsicSize =
         CountedFileSizes(scan.files, scan.files[i].dir)
           + SubdirectoryStatSizes(scan.directories, scan.files[i].dir)

(***************************************************************************)
(* Properties of the permission analyzer.                                  *)
(***************************************************************************)
\* C21: the permission analyzer derives the same desired modes from the
\* spellings '0o664' and '0o775' as from '664' and '775': it flags the same
\* entries with the same chmod values.
C21_OctalPrefixSpellingSameResult ==
  pc = "permissions" =>
    out.result = GetPermissionFiles(scan, "664", "775")

(***************************************************************************)
(* Properties of the destructive set.                                      *)
(***************************************************************************)
\* the paths the enabled destructive analyzers flag on the scan (a run with
\* 'orphans' enabled does not get past the orphans block)
EnabledDestructivePaths ==
  (IF "duplicates" \in actions
   THEN Paths(FlatValues(GetDuplicateItems(tree0, scan, RecycleBinPath))) ELSE {})
    \cup (IF "pre-cleanup" \in actions
          THEN Paths(PreCleanupOperations(
                       GetCleanUpItems(scan, ScanPath, RecycleBinPath, 0)))
          ELSE {})

\* C22: a path is in the destructive set only by an analyzer whose action is
\* enabled: the Reorganize, Permissions and Ownership sequences hold every
\* path their analyzers flag but those the enabled destructive analyzers
\* flag.
C22_OnlyEnabledAnalyzersClaimPaths ==
  pc \in {"execute", "postCleanup", "end"} =>
    /\ destructivePaths = EnabledDestructivePaths
    /\ "reorganize" \in actions =>
         Paths(operations.reorganize) =
           Paths(GetReorganizeItems(scan, RelativePath).files)
             \ EnabledDestructivePaths
    /\ "permissions" \in actions =>
         Paths(operations.permissions) =
           Paths(GetPermissionFiles(scan, FilePerm, DirPerm)) \ EnabledDestructivePaths
    /\ "ownership" \in actions =>
         Paths(operations.ownership) =
           Paths(GetOwnershipFiles(scan, OwnerUser, OwnerGroup))
             \ EnabledDestructivePaths

\* C22, witness: pre-cleanup is not enabled, permissions is; /r/a/Thumbs.db,
\* which pre-cleanup would flag, has the wrong mode and is in the
\* Permissions sequence.
C22_Witness ==
  /\ pc = "execute"
  /\ "pre-cleanup" \notin actions
  /\ "permissions" \in actions
  /\ Join(DirA, "Thumbs.db") \in
       Paths(PreCleanupOperations(GetCleanUpItems(scan, ScanPath, RecycleBinPath, 0)))
  /\ Join(DirA, "Thumbs.db") \in Paths(operations.permissions)

(***************************************************************************)
(* Properties of the per-file I/O tasks.                                   *)
(***************************************************************************)
\* C23: within any analyzer at most 10 per-file I/O tasks are in flight at
\* the same time, whatever the number of files.
C23_AtMostTenTasksInFlight ==
  pc = "tasks" => InFlight(out) <= 10

(***************************************************************************)
(* Properties of the directory stage of the duplicate analyzer.            *)
(***************************************************************************)
\* two recorded directories that hold files, share the shape key and have
\* equal recursive content hashes
SameDirectoryContent(t, items, d, e) ==
  /\ d.path # e.path
  /\ d.fileCount > 0
  /\ DirKey(d) = DirKey(e)
  /\ CalculateDirectoryHash(t, d.path, items) = CalculateDirectoryHash(t, e.path, items)

\* C24: of the directories that share the shape key and have equal recursive
\* content hashes, every one except the original yields a Duplicate
\* operation: of two such directories at least one is in the analyzer's
\* output.
C24_DuplicateDirectoriesReported ==
  (pc = "duplicates" /\ ~out.threw) =>
    \A i, j \in DOMAIN scan.directories :
      SameDirectoryContent(tree, scan, scan.directories[i], scan.directories[j]) =>
        \/ scan.directories[i].path \in Paths(out.directories)
        \/ scan.directories[j].path \in Paths(out.directories)

(***************************************************************************)
(* Properties of the reorganizer's plan.                                   *)
(***************************************************************************)
\* C28: no two move operations of one plan with different source paths
\* have the same destination.
C28_DestinationsAreDistinct ==
  pc \in {"planned", "replanned"} =>
    \A i, j \in DOMAIN operations.reorganize :
      operations.reorganize[i].path # operations.reorganize[j].path =>
        operations.reorganize[i].move_to # operations.reorganize[j].move_to

\* C25: the reorganizer emits no Reorganize operation for a file that the
\* scan flagged as ignored or as marked for deletion.
C25_NoReorganizeOfIgnoredOrDeleted ==
  pc \in {"planned", "replanned"} =>
    \A i \in DOMAIN operations.reorganize :
      /\ ~MapGet(scan.files, operations.reorganize[i].path).ignored
      /\ ~MapGet(scan.files, operations.reorganize[i].path).delete

(***************************************************************************)
(* Properties of the date extractor.  The threshold is the Date 0 that     *)
(* config.dateThreshold "" compares as; the date 0 stands for no date.     *)
(***************************************************************************)
\* the candidates of C26: the mtime counts only when EXIF and path gave none
C26_Candidates ==
  IF out.exifDates = {} /\ out.pathDates = {} THEN {out.mtime}
  ELSE out.exifDates \cup out.pathDates

\* C26: the date extractor returns the earliest of its candidates that is
\* strictly later than the threshold, or no date when none is, where the
\* mtime is a candidate only when neither EXIF nor the path gave one.
C26_EarliestCandidateAfterThreshold ==
  pc = "dated" =>
    IF \A d \in C26_Candidates : d <= 0
    THEN out.date = 0
    ELSE /\ out.date \in C26_Candidates
         /\ out.date > 0
         /\ \A d \in C26_Candidates : d > 0 => out.date <= d

\* C26, witness: the path gave only a date before the threshold and the
\* mtime lies after it: no date is returned; and an EXIF date after the
\* threshold has won over a later date of the path.
C26_Witness ==
  /\ pc = "dated"
  /\ \/ /\ out.exifDates = {}
        /\ out.pathDates = {0 - 1000}
        /\ out.mtime = 1000
        /\ out.date = 0
     \/ /\ out.exifDates = {1000}
        /\ out.pathDates = {3024000}
        /\ out.mtime = 0
        /\ out.date = 1000

(***************************************************************************)
(* Properties of the originals of a plan.                                  *)
(***************************************************************************)
\* C27: for every Duplicate operation of a plan that names an original,
\* the original is not itself the path of a Duplicate operation of the
\* plan.
C27_OriginalsStayInPlace ==
  (pc = "duplicates" /\ ~out.threw) =>
    \A i, j \in DOMAIN DuplicateOperations(out) :
      DuplicateOperations(out)[i].original # UndefPath =>
        DuplicateOperations(out)[j].path # DuplicateOperations(out)[i].original

\* C29: no reorganize, permissions or ownership operation of a plan targets
\* a path that lies beneath a directory claimed by a destructive operation
\* of the same plan.
C29_NothingBeneathClaimedDirectory ==
  \A d \in DestructiveOperationPaths :
    \A p \in NonDestructiveOperationPaths :
      ~(IsPrefix(d, p) /\ p # d)

(***************************************************************************)
(* The executor with an operator who answers every prompt: a prompt that   *)
(* is open is answered at some time, and 's' is not the answer for ever,   *)
(* so the step that follows the awaited answer is taken.                   *)
(***************************************************************************)
SpecExecFair == InitExec /\ [][NextExec]_vars /\ WF_vars(NextExec)

\* the pass stands before item i of kind k, in a class the operator has
\* answered 'y' to and has not cancelled
StandsBefore(k, i) ==
  /\ pc = "execute"
  /\ ex.k = k
  /\ ex.i = i
  /\ ex.class = "y"
  /\ ex.answer # "c"

\* the pass has gone on from item i of kind k without throwing
GoneOnFrom(k, i) ==
  /\ pc # "failed"
  /\ pc # "execute" \/ ex.k # k \/ ex.i # i

\* C30: every item of a class the operator answered 'y' to is reached and,
\* when approved, attempted: the pass does not abort or stall before it
\* (the operator asked about the item, or the operation called after 'a').
C30_ApprovedItemsAreReached ==
  \A k \in DOMAIN Kinds :
    \A i \in 1..MaxItems :
      StandsBefore(k, i) ~> GoneOnFrom(k, i)

====
